---------------------------- MODULE Spec2Model ----------------------------
(***************************************************************************)
(* Cardiac view planning: the oblique-plane geometry engine                *)
(* (src/core/oblique_slice.py) and the planning window that chains the     *)
(* three derivations P2CH -> P4CH -> SAX (src/ui/cardiac_view_window.py).  *)
(*                                                                         *)
(* Numbers.  The code computes in floating point.  The model computes with *)
(* exact integers: every position and length is held in HALF-VOXEL units   *)
(* (Vox(n) is n voxels, HalfVox(n) is n/2 voxels), direction vectors are   *)
(* integer triples, and the inputs (click positions, rotation angles) are  *)
(* chosen so that every square root and division the code performs is      *)
(* exact: lines are drawn along a pixel row or column and rotation angles  *)
(* are multiples of 90 degrees.  Floating-point rounding is not modelled;  *)
(* a threshold such as 1e-10 or 1e-6 on a norm is "the norm is zero".      *)
(*                                                                         *)
(* An absent value (Python None) is the empty tuple, a present value v is  *)
(* the one-element tuple <<v>>.                                            *)
(***************************************************************************)
EXTENDS Integers, Sequences, FiniteSets, TLC

None == <<>>
Some(v) == <<v>>
Get(o) == o[1]
Present(o) == o # None
Absent(o) == o = None

(***************************************************************************)
(* Bounds of the model                                                     *)
(***************************************************************************)
\* click positions offered on every view
NumClicks == 2
\* patients in the opened folder
NumPatients == 1
\* rotation slider positions offered, in quarter turns: 0, 90, ...
MaxQuarterTurns == 1

(***************************************************************************)
(* Units and vector algebra (numpy)                                        *)
(***************************************************************************)
\* n voxels, and n/2 voxels, in half-voxel units
Vox(n) == 2 * n
HalfVox(n) == n

Abs(a) == IF a < 0 THEN -a ELSE a
Max(a, b) == IF a >= b THEN a ELSE b

Dot(a, b) == a[1] * b[1] + a[2] * b[2] + a[3] * b[3]
Cross(a, b) == << a[2] * b[3] - a[3] * b[2],
                  a[3] * b[1] - a[1] * b[3],
                  a[1] * b[2] - a[2] * b[1] >>
VAdd(a, b) == << a[1] + b[1], a[2] + b[2], a[3] + b[3] >>
VSub(a, b) == << a[1] - b[1], a[2] - b[2], a[3] - b[3] >>
VScale(k, a) == << k * a[1], k * a[2], k * a[3] >>
VNeg(a) == << -a[1], -a[2], -a[3] >>
VHalf(a) == << a[1] \div 2, a[2] \div 2, a[3] \div 2 >>
Zero3 == << 0, 0, 0 >>

\* np.linalg.norm: the Euclidean norm, exact.  A vector along one axis
\* has the norm of its only component; any other vector must have an
\* integral norm (CHOOSE fails otherwise, so an inexact case cannot pass
\* silently).
MaxNorm == 200
Norm(v) ==
    IF Cardinality({i \in 1..3 : v[i] # 0}) <= 1
    THEN Abs(v[1]) + Abs(v[2]) + Abs(v[3])
    ELSE CHOOSE n \in 0..MaxNorm : n * n = Dot(v, v)

\* normalize(v): v / |v|, and v itself when |v| < 1e-10
normalize_zero_to_x_axis(v) ==
    LET norm == Norm(v)
    IN  IF norm = 0 THEN << 1, 0, 0 >>
        ELSE << v[1] \div norm, v[2] \div norm, v[3] \div norm >>
normalize(v) ==
    LET norm == Norm(v)
    IN  IF norm = 0 THEN v
        ELSE << v[1] \div norm, v[2] \div norm, v[3] \div norm >>

\* np.cos / np.sin of np.radians(degrees), for a multiple of 90 degrees
CosDeg(d) ==
    LET r == d % 360
    IN  CASE r = 0 -> 1 [] r = 90 -> 0 [] r = 180 -> -1 [] r = 270 -> 0
SinDeg(d) ==
    LET r == d % 360
    IN  CASE r = 0 -> 0 [] r = 90 -> 1 [] r = 180 -> 0 [] r = 270 -> -1

(***************************************************************************)
(* ObliquePlane                                                            *)
(***************************************************************************)
ObliquePlane(origin, u_axis, v_axis, normal, width, height) ==
    [origin |-> origin, u_axis |-> u_axis, v_axis |-> v_axis,
     normal |-> normal, width |-> width, height |-> height]

\* plane.map_2d_to_3d(x2d, y2d, offset): x2d, y2d, offset and the result
\* in half-voxel units
map_2d_to_3d_floor_centre(plane, x2d, y2d, offset) ==
    LET u == x2d - Vox(plane.width \div 2)
        v == y2d - Vox(plane.height \div 2)
    IN  VAdd(VAdd(VAdd(plane.origin, VScale(u, plane.u_axis)),
                  VScale(v, plane.v_axis)),
             VScale(offset, plane.normal))
map_2d_to_3d_ignoring_offset(plane, x2d, y2d, offset) ==
    LET u == x2d - HalfVox(plane.width)
        v == y2d - HalfVox(plane.height)
    IN  VAdd(VAdd(plane.origin, VScale(u, plane.u_axis)),
             VScale(v, plane.v_axis))
map_2d_to_3d(plane, x2d, y2d, offset) ==
    LET u == x2d - HalfVox(plane.width)
        v == y2d - HalfVox(plane.height)
    IN  VAdd(VAdd(VAdd(plane.origin, VScale(u, plane.u_axis)),
                  VScale(v, plane.v_axis)),
             VScale(offset, plane.normal))

\* plane.map_3d_to_2d(x, y, z, tolerance): None when the point is farther
\* than the tolerance from the plane
DefaultTolerance == 5
map_3d_to_2d_uncentred(plane, point, tolerance) ==
    LET diff == VSub(point, plane.origin)
        dist == Abs(Dot(diff, plane.normal))
    IN  IF dist > Vox(tolerance) THEN None
        ELSE Some(<< Dot(diff, plane.u_axis), Dot(diff, plane.v_axis) >>)
map_3d_to_2d_at_or_beyond(plane, point, tolerance) ==
    LET diff == VSub(point, plane.origin)
        dist == Abs(Dot(diff, plane.normal))
    IN  IF dist >= Vox(tolerance) THEN None
        ELSE Some(<< Dot(diff, plane.u_axis) + HalfVox(plane.width),
                     Dot(diff, plane.v_axis) + HalfVox(plane.height) >>)
map_3d_to_2d(plane, point, tolerance) ==
    LET diff == VSub(point, plane.origin)
        dist == Abs(Dot(diff, plane.normal))
    IN  IF dist > Vox(tolerance) THEN None
        ELSE Some(<< Dot(diff, plane.u_axis) + HalfVox(plane.width),
                     Dot(diff, plane.v_axis) + HalfVox(plane.height) >>)

\* plane.with_offset(offset)
with_offset_from_zero(plane, offset) ==
    ObliquePlane(VScale(offset, plane.normal),
                 plane.u_axis, plane.v_axis, plane.normal,
                 plane.width, plane.height)
with_offset(plane, offset) ==
    ObliquePlane(VAdd(plane.origin, VScale(offset, plane.normal)),
                 plane.u_axis, plane.v_axis, plane.normal,
                 plane.width, plane.height)

(***************************************************************************)
(* The extractor.  A volume is a function volume[z][y][x] over voxel       *)
(* indices from 0; a slice is a function slice[row][col] over pixel        *)
(* indices from 0.  Sample coordinates are in half voxels; the values of   *)
(* the volumes of the model are multiples of 8, so that the linear         *)
(* interpolation between the voxels around a half-voxel coordinate is an   *)
(* integer.                                                                *)
(***************************************************************************)
ShapeOf(volume) ==
    << Cardinality(DOMAIN volume), Cardinality(DOMAIN volume[0]),
       Cardinality(DOMAIN volume[0][0]) >>

\* the bounds of the volume: a coordinate is inside when it is within
\* [0, n - 1] on every axis; coord is <<z, y, x>>
outside_volume(volume, coord) ==
    \E a \in 1..3 : coord[a] < 0 \/ coord[a] > Vox(ShapeOf(volume)[a] - 1)

\* order=1: linear interpolation between the voxels around coord
interpolate(volume, coord) ==
    LET lo(a) == coord[a] \div 2
        r(a) == coord[a] % 2
        along_x(z, y) ==
            IF r(3) = 0 THEN 2 * volume[z][y][lo(3)]
            ELSE volume[z][y][lo(3)] + volume[z][y][lo(3) + 1]
        along_y(z) ==
            IF r(2) = 0 THEN 2 * along_x(z, lo(2))
            ELSE along_x(z, lo(2)) + along_x(z, lo(2) + 1)
        along_z ==
            IF r(1) = 0 THEN 2 * along_y(lo(1))
            ELSE along_y(lo(1)) + along_y(lo(1) + 1)
    IN  along_z \div 8

map_coordinates_nearest(volume, coord) ==
    interpolate(volume,
                [a \in 1..3 |->
                    IF coord[a] < 0 THEN 0
                    ELSE IF coord[a] > Vox(ShapeOf(volume)[a] - 1)
                         THEN Vox(ShapeOf(volume)[a] - 1)
                         ELSE coord[a]])
\* map_coordinates(volume, coords, order=1, mode='constant', cval=0) at one
\* coordinate: cval outside the bounds, no interpolation beyond the edges
map_coordinates(volume, coord) ==
    IF outside_volume(volume, coord) THEN 0 ELSE interpolate(volume, coord)

extract_oblique_slice_pixel_centred(volume, plane, offset) ==
    LET origin == VAdd(plane.origin, VScale(offset, plane.normal))
        at(row, col) ==
            VAdd(VAdd(origin,
                      VScale(Vox(col) - HalfVox(plane.width - 1),
                             plane.u_axis)),
                 VScale(Vox(row) - HalfVox(plane.height - 1), plane.v_axis))
    IN  [row \in 0..(plane.height - 1) |->
            [col \in 0..(plane.width - 1) |->
                map_coordinates(volume, << at(row, col)[3], at(row, col)[2],
                                           at(row, col)[1] >>)]]
extract_oblique_slice_ignoring_offset(volume, plane, offset) ==
    LET point_3d(row, col) ==
            VAdd(VAdd(plane.origin,
                      VScale(Vox(col) - HalfVox(plane.width), plane.u_axis)),
                 VScale(Vox(row) - HalfVox(plane.height), plane.v_axis))
    IN  [row \in 0..(plane.height - 1) |->
            [col \in 0..(plane.width - 1) |->
                map_coordinates(volume, << point_3d(row, col)[3],
                                           point_3d(row, col)[2],
                                           point_3d(row, col)[1] >>)]]
extract_oblique_slice(volume, plane, offset) ==
    LET u_coords == [i \in 0..(plane.width - 1) |->
                        Vox(i) - HalfVox(plane.width)]
        v_coords == [j \in 0..(plane.height - 1) |->
                        Vox(j) - HalfVox(plane.height)]
        origin == VAdd(plane.origin, VScale(offset, plane.normal))
        point_3d(row, col) ==
            VAdd(VAdd(origin, VScale(u_coords[col], plane.u_axis)),
                 VScale(v_coords[row], plane.v_axis))
        coords(row, col) ==
            << point_3d(row, col)[3], point_3d(row, col)[2],
               point_3d(row, col)[1] >>
    IN  [row \in 0..(plane.height - 1) |->
            [col \in 0..(plane.width - 1) |->
                map_coordinates(volume, coords(row, col))]]

(***************************************************************************)
(* The three derivers.  volume_shape is <<z_dim, y_dim, x_dim>>.           *)
(***************************************************************************)
create_p2ch_plane_at_slice_depth(line_x1, line_y1, line_x2, line_y2, axial_slice_z, volume_shape) ==
    LET line_dir == normalize(<< line_x2 - line_x1, line_y2 - line_y1, 0 >>)
    IN  ObliquePlane(<< (line_x1 + line_x2) \div 2,
                        (line_y1 + line_y2) \div 2, axial_slice_z >>,
                     line_dir, << 0, 0, -1 >>,
                     normalize(<< -line_dir[2], line_dir[1], 0 >>),
                     (Max(volume_shape[3], volume_shape[2]) * 3) \div 2,
                     volume_shape[1])
create_p2ch_plane_looking_along_line(line_x1, line_y1, line_x2, line_y2, axial_slice_z, volume_shape) ==
    LET line_dir == normalize(<< line_x2 - line_x1, line_y2 - line_y1, 0 >>)
    IN  ObliquePlane(<< (line_x1 + line_x2) \div 2,
                        (line_y1 + line_y2) \div 2,
                        HalfVox(volume_shape[1]) >>,
                     normalize(<< -line_dir[2], line_dir[1], 0 >>),
                     << 0, 0, -1 >>, line_dir,
                     (Max(volume_shape[3], volume_shape[2]) * 3) \div 2,
                     volume_shape[1])
create_p2ch_plane_from_axial_line(line_x1, line_y1, line_x2, line_y2, axial_slice_z, volume_shape) ==
    LET z_dim == volume_shape[1]
        y_dim == volume_shape[2]
        x_dim == volume_shape[3]
        line_dir == normalize(<< line_x2 - line_x1, line_y2 - line_y1, 0 >>)
        normal == normalize(<< -line_dir[2], line_dir[1], 0 >>)
        u_axis == line_dir
        v_axis == << 0, 0, -1 >>
        origin == << (line_x1 + line_x2) \div 2,
                     (line_y1 + line_y2) \div 2,
                     HalfVox(z_dim) >>
        width == (Max(x_dim, y_dim) * 3) \div 2
        height == z_dim
    IN  ObliquePlane(origin, u_axis, v_axis, normal, width, height)

\* the Rodrigues step of the P4CH deriver: base_normal turned about
\* long_axis by rotation_degrees (base_normal is perpendicular to
\* long_axis, so the k (k.v) (1 - cos) term is left out), normalised
p4ch_normal_reversed(long_axis, base_normal, rotation_degrees) ==
    normalize(VSub(VScale(CosDeg(rotation_degrees), base_normal),
                   VScale(SinDeg(rotation_degrees),
                          Cross(long_axis, base_normal))))
p4ch_normal_doubled(long_axis, base_normal, rotation_degrees) ==
    VScale(2, VAdd(VScale(CosDeg(rotation_degrees), base_normal),
                   VScale(SinDeg(rotation_degrees),
                          Cross(long_axis, base_normal))))
p4ch_normal_quarter_turn_ahead(long_axis, base_normal, rotation_degrees) ==
    normalize(VAdd(VScale(CosDeg(rotation_degrees + 90), base_normal),
                   VScale(SinDeg(rotation_degrees + 90),
                          Cross(long_axis, base_normal))))
p4ch_normal(long_axis, base_normal, rotation_degrees) ==
    normalize(VAdd(VScale(CosDeg(rotation_degrees), base_normal),
                   VScale(SinDeg(rotation_degrees),
                          Cross(long_axis, base_normal))))

\* the result with return_rotation_info=True (P4CHPlaneResult); the
\* plain result is its plane field
create_p4ch_plane_through_apex(line_2d_x1, line_2d_y1, line_2d_x2, line_2d_y2, p2ch_plane, volume_shape, rotation_degrees, rotation_mode) ==
    LET valve_3d == map_2d_to_3d(p2ch_plane, line_2d_x1, line_2d_y1, 0)
        apex_3d == map_2d_to_3d(p2ch_plane, line_2d_x2, line_2d_y2, 0)
        long_axis == normalize(VSub(apex_3d, valve_3d))
        perp == normalize(Cross(p2ch_plane.normal, long_axis))
        proj == VSub(p2ch_plane.normal,
                     VScale(Dot(p2ch_plane.normal, long_axis), long_axis))
        base_normal ==
            IF rotation_mode = "perp_p2ch" THEN perp
            ELSE IF Norm(proj) = 0 THEN perp
            ELSE normalize(proj)
        normal == p4ch_normal(long_axis, base_normal, rotation_degrees)
        v_axis == VNeg(long_axis)
    IN  [plane |-> ObliquePlane(apex_3d, normalize(Cross(v_axis, normal)),
                                v_axis, normal,
                                (Max(volume_shape[3], volume_shape[2]) * 3)
                                    \div 2,
                                volume_shape[1]),
         rotation_axis |-> long_axis,
         base_normal |-> base_normal,
         base_u_axis |-> normalize(Cross(v_axis, base_normal))]
create_p4ch_plane_modes_swapped(line_2d_x1, line_2d_y1, line_2d_x2, line_2d_y2, p2ch_plane, volume_shape, rotation_degrees, rotation_mode) ==
    LET valve_3d == map_2d_to_3d(p2ch_plane, line_2d_x1, line_2d_y1, 0)
        apex_3d == map_2d_to_3d(p2ch_plane, line_2d_x2, line_2d_y2, 0)
        long_axis == normalize(VSub(apex_3d, valve_3d))
        perp == normalize(Cross(p2ch_plane.normal, long_axis))
        proj == VSub(p2ch_plane.normal,
                     VScale(Dot(p2ch_plane.normal, long_axis), long_axis))
        base_normal ==
            IF rotation_mode = "long_axis" THEN perp
            ELSE IF Norm(proj) = 0 THEN perp
            ELSE normalize(proj)
        normal == p4ch_normal(long_axis, base_normal, rotation_degrees)
        v_axis == VNeg(long_axis)
    IN  [plane |-> ObliquePlane(valve_3d, normalize(Cross(v_axis, normal)),
                                v_axis, normal,
                                (Max(volume_shape[3], volume_shape[2]) * 3)
                                    \div 2,
                                volume_shape[1]),
         rotation_axis |-> long_axis,
         base_normal |-> base_normal,
         base_u_axis |-> normalize(Cross(v_axis, base_normal))]
create_p4ch_plane_perp_reversed(line_2d_x1, line_2d_y1, line_2d_x2, line_2d_y2, p2ch_plane, volume_shape, rotation_degrees, rotation_mode) ==
    LET valve_3d == map_2d_to_3d(p2ch_plane, line_2d_x1, line_2d_y1, 0)
        apex_3d == map_2d_to_3d(p2ch_plane, line_2d_x2, line_2d_y2, 0)
        long_axis == normalize(VSub(apex_3d, valve_3d))
        perp == normalize(Cross(long_axis, p2ch_plane.normal))
        proj == VSub(p2ch_plane.normal,
                     VScale(Dot(p2ch_plane.normal, long_axis), long_axis))
        base_normal ==
            IF rotation_mode = "perp_p2ch" THEN perp
            ELSE IF Norm(proj) = 0 THEN perp
            ELSE normalize(proj)
        normal == p4ch_normal(long_axis, base_normal, rotation_degrees)
        v_axis == VNeg(long_axis)
    IN  [plane |-> ObliquePlane(valve_3d, normalize(Cross(v_axis, normal)),
                                v_axis, normal,
                                (Max(volume_shape[3], volume_shape[2]) * 3)
                                    \div 2,
                                volume_shape[1]),
         rotation_axis |-> long_axis,
         base_normal |-> base_normal,
         base_u_axis |-> normalize(Cross(v_axis, base_normal))]
create_p4ch_plane_from_p2ch_line(line_2d_x1, line_2d_y1, line_2d_x2, line_2d_y2, p2ch_plane, volume_shape, rotation_degrees, rotation_mode) ==
    LET z_dim == volume_shape[1]
        y_dim == volume_shape[2]
        x_dim == volume_shape[3]
        valve_3d == map_2d_to_3d(p2ch_plane, line_2d_x1, line_2d_y1, 0)
        apex_3d == map_2d_to_3d(p2ch_plane, line_2d_x2, line_2d_y2, 0)
        long_axis == normalize(VSub(apex_3d, valve_3d))
        perp == normalize(Cross(p2ch_plane.normal, long_axis))
        proj == VSub(p2ch_plane.normal,
                     VScale(Dot(p2ch_plane.normal, long_axis), long_axis))
        base_normal ==
            IF rotation_mode = "perp_p2ch" THEN perp
            ELSE IF Norm(proj) = 0 THEN perp
            ELSE normalize(proj)
        normal == p4ch_normal(long_axis, base_normal, rotation_degrees)
        v_axis == VNeg(long_axis)
        u_axis == normalize(Cross(v_axis, normal))
        base_u_axis == normalize(Cross(v_axis, base_normal))
        origin == valve_3d
        width == (Max(x_dim, y_dim) * 3) \div 2
        height == z_dim
    IN  [plane |-> ObliquePlane(origin, u_axis, v_axis, normal,
                                width, height),
         rotation_axis |-> long_axis,
         base_normal |-> base_normal,
         base_u_axis |-> base_u_axis]

create_sax_plane_in_p4ch_plane(line_2d_x1, line_2d_y1, line_2d_x2, line_2d_y2, p4ch_plane, volume_shape) ==
    LET p1_3d == map_2d_to_3d(p4ch_plane, line_2d_x1, line_2d_y1, 0)
        p2_3d == map_2d_to_3d(p4ch_plane, line_2d_x2, line_2d_y2, 0)
        sax_normal == normalize(VSub(p2_3d, p1_3d))
        proj_u == VSub(p4ch_plane.u_axis,
                       VScale(Dot(p4ch_plane.u_axis, sax_normal), sax_normal))
        proj_v == VSub(p4ch_plane.v_axis,
                       VScale(Dot(p4ch_plane.v_axis, sax_normal), sax_normal))
        u_axis == normalize(IF Norm(proj_u) = 0 THEN proj_v ELSE proj_u)
        v_axis == normalize(Cross(sax_normal, u_axis))
        size == (Max(volume_shape[3], volume_shape[2]) * 6) \div 5
    IN  ObliquePlane(VHalf(VAdd(p1_3d, p2_3d)), u_axis, v_axis, p4ch_plane.normal,
                     size, size)
create_sax_plane_without_fallback(line_2d_x1, line_2d_y1, line_2d_x2, line_2d_y2, p4ch_plane, volume_shape) ==
    LET p1_3d == map_2d_to_3d(p4ch_plane, line_2d_x1, line_2d_y1, 0)
        p2_3d == map_2d_to_3d(p4ch_plane, line_2d_x2, line_2d_y2, 0)
        sax_normal == normalize(VSub(p2_3d, p1_3d))
        proj_u == VSub(p4ch_plane.u_axis,
                       VScale(Dot(p4ch_plane.u_axis, sax_normal), sax_normal))
        proj_v == VSub(p4ch_plane.v_axis,
                       VScale(Dot(p4ch_plane.v_axis, sax_normal), sax_normal))
        u_axis == normalize(proj_u)
        v_axis == normalize(Cross(sax_normal, u_axis))
        size == (Max(volume_shape[3], volume_shape[2]) * 6) \div 5
    IN  ObliquePlane(VHalf(VAdd(p1_3d, p2_3d)), u_axis, v_axis, sax_normal,
                     size, size)
create_sax_plane_left_handed(line_2d_x1, line_2d_y1, line_2d_x2, line_2d_y2, p4ch_plane, volume_shape) ==
    LET p1_3d == map_2d_to_3d(p4ch_plane, line_2d_x1, line_2d_y1, 0)
        p2_3d == map_2d_to_3d(p4ch_plane, line_2d_x2, line_2d_y2, 0)
        sax_normal == normalize(VSub(p2_3d, p1_3d))
        proj_u == VSub(p4ch_plane.u_axis,
                       VScale(Dot(p4ch_plane.u_axis, sax_normal), sax_normal))
        proj_v == VSub(p4ch_plane.v_axis,
                       VScale(Dot(p4ch_plane.v_axis, sax_normal), sax_normal))
        u_axis == normalize(IF Norm(proj_u) = 0 THEN proj_v ELSE proj_u)
        v_axis == normalize(Cross(u_axis, sax_normal))
        size == (Max(volume_shape[3], volume_shape[2]) * 6) \div 5
    IN  ObliquePlane(VHalf(VAdd(p1_3d, p2_3d)), u_axis, v_axis, sax_normal,
                     size, size)
create_sax_plane_from_p4ch_line(line_2d_x1, line_2d_y1, line_2d_x2, line_2d_y2, p4ch_plane, volume_shape) ==
    LET y_dim == volume_shape[2]
        x_dim == volume_shape[3]
        p1_3d == map_2d_to_3d(p4ch_plane, line_2d_x1, line_2d_y1, 0)
        p2_3d == map_2d_to_3d(p4ch_plane, line_2d_x2, line_2d_y2, 0)
        sax_normal == normalize(VSub(p2_3d, p1_3d))
        proj_u == VSub(p4ch_plane.u_axis,
                       VScale(Dot(p4ch_plane.u_axis, sax_normal), sax_normal))
        proj_v == VSub(p4ch_plane.v_axis,
                       VScale(Dot(p4ch_plane.v_axis, sax_normal), sax_normal))
        u_axis == normalize(IF Norm(proj_u) = 0 THEN proj_v ELSE proj_u)
        v_axis == normalize(Cross(sax_normal, u_axis))
        origin == VHalf(VAdd(p1_3d, p2_3d))
        size == (Max(x_dim, y_dim) * 6) \div 5
    IN  ObliquePlane(origin, u_axis, v_axis, sax_normal, size, size)

(***************************************************************************)
(* Inputs of the planning window                                           *)
(***************************************************************************)
Patients == 1..NumPatients
\* patient.image.shape, <<z_dim, y_dim, x_dim>>
VolumeShape(p) == << 8 + 2 * (p - 1), 20 + ((p - 1) % 2), 20 >>

TopViews == {"axial", "sagittal", "coronal"}
BottomViews == {"p2ch", "p4ch", "sax"}
Modes == {"long_axis", "perp_p2ch"}
\* rotation slider values, within the slider's range -180..180
Angles == {90 * k : k \in 0..MaxQuarterTurns} \cap (-180..180)

\* scene positions of the mouse, in pixels: along one row on the axial,
\* sagittal and coronal views, along one column on the p2ch and sax views,
\* and on the p4ch view along the row through the middle column (the
\* column of the rotation axis), so that a point of the p4ch view is 0 or
\* 10 voxels away from that axis
ClickPx(view, i) ==
    CASE view = "axial" -> << 4 + 4 * i, 10 >>
      [] view \in {"sagittal", "coronal"} -> << 4 + 4 * i, 4 >>
      [] view = "p2ch" -> << 10, 2 * i >>
      [] view = "p4ch" -> << 15 + 10 * ((i % 3) - 1), 4 >>
      [] view = "sax" -> << 12, 4 * i >>
ScenePos(view, i) == << Vox(ClickPx(view, i)[1]), Vox(ClickPx(view, i)[2]) >>
\* the views that drive the pipeline are offered every position, the
\* others one
ClicksOn(view) ==
    IF view \in {"axial", "p2ch", "p4ch"} THEN 1..NumClicks ELSE {1}

\* SliceView.current_slice after set_volume: max_slice // 2
CurrentSlice(plane, shape) ==
    CASE plane = "axial" -> (shape[1] - 1) \div 2
      [] plane = "sagittal" -> (shape[3] - 1) \div 2
      [] plane = "coronal" -> (shape[2] - 1) \div 2

\* width and height of the pixmap a top view shows
TopPixmap(plane, shape) ==
    CASE plane = "axial" -> << shape[3], shape[2] >>
      [] plane = "sagittal" -> << shape[2], shape[1] >>
      [] plane = "coronal" -> << shape[3], shape[1] >>

\* _is_in_image_bounds: QRectF(0, 0, w, h).contains(scene_pos)
is_in_image_bounds(w, h, pos) ==
    /\ 0 <= pos[1] /\ pos[1] <= Vox(w)
    /\ 0 <= pos[2] /\ pos[2] <= Vox(h)

(***************************************************************************)
(* LineSegment and ObliqueSliceView                                        *)
(***************************************************************************)
LineSegment(p1, p2, label) ==
    [x1 |-> p1[1], y1 |-> p1[2], z1 |-> p1[3],
     x2 |-> p2[1], y2 |-> p2[2], z2 |-> p2[3], label |-> label]
End1(ls) == << ls.x1, ls.y1, ls.z1 >>
End2(ls) == << ls.x2, ls.y2, ls.z2 >>

DefaultScrollRange == << -100, 100 >>
NewView == [plane |-> None, line_segment |-> None,
            scroll_offset |-> 0, scroll_range |-> DefaultScrollRange]

\* ObliqueSliceView.set_plane
set_plane(view, plane, scroll_range) ==
    [view EXCEPT !.plane = Some(plane), !.scroll_range = scroll_range,
                 !.scroll_offset = 0]
\* a clear_plane that leaves the shown line in place
clear_plane_keeping_line(view) == [view EXCEPT !.plane = None]
\* ObliqueSliceView.clear_plane
clear_plane(view) ==
    [view EXCEPT !.plane = None, !.line_segment = None]
\* ObliqueSliceView.set_line_segment
set_line_segment(view, ls) == [view EXCEPT !.line_segment = ls]
\* ObliqueSliceView.map_2d_to_3d; the scroll offset is in voxels
view_map_2d_to_3d(view, x2d, y2d) ==
    IF view.plane = None THEN None
    ELSE Some(map_2d_to_3d(Get(view.plane), x2d, y2d,
                           Vox(view.scroll_offset)))

\* the views made with scrollable=True, which have a scroll slider
scrollable(view_name) == view_name = "sax"
\* ObliqueSliceView._on_slider_changed
on_slider_changed(view, value) == [view EXCEPT !.scroll_offset = value]
\* QSlider.setValue: the value is clamped to the slider's range, and
\* valueChanged fires when it changes.  The slider's range is that of the
\* last set_plane and its value is _scroll_offset: set_plane sets both to
\* 0 and _on_slider_changed copies the one to the other
slider_set_value(view, value) ==
    LET bounded == Max(view.scroll_range[1],
                       -Max(-view.scroll_range[2], -value))
    IN  IF bounded = view.scroll_offset THEN view
        ELSE on_slider_changed(view, bounded)
\* ObliqueSliceView._handle_wheel without the Control modifier
WheelStep == 5
handle_wheel(view, is_scrollable, up) ==
    IF is_scrollable
    THEN slider_set_value(view, view.scroll_offset
                                    + (IF up THEN WheelStep ELSE -WheelStep))
    ELSE view
\* the offset update_display passes to extract_oblique_slice
extraction_offset(view) == view.scroll_offset

(***************************************************************************)
(* State of the CardiacViewWindow                                          *)
(***************************************************************************)
VARIABLES
    current_patient,        \* _current_patient: 0 (None) or a patient
    annotations,            \* _annotations: None or Some(line_segments)
    cardiac_line_segments,  \* _cardiac_line_segments: axial, p2ch, p4ch
    oblique_planes,         \* _oblique_planes: p2ch, p4ch, sax
    bottom_views,           \* _bottom_views: the three ObliqueSliceViews
    rotation_slider,        \* value of the p4ch view's rotation slider
    rotation_mode_combo,    \* current data of the p4ch view's mode combo
    lineseg_first_point,    \* _lineseg_first_point
    lineseg_source_view,    \* _lineseg_source_view
    engine_input,           \* arguments of a call of the geometry engine
    engine_output,          \* None, or the result of that call
    main_window,            \* the fields of the labelling MainWindow
    persistence             \* a patient, its annotations directory and
                            \* what save and load made of them

vars == << current_patient, annotations, cardiac_line_segments,
           oblique_planes, bottom_views, rotation_slider,
           rotation_mode_combo, lineseg_first_point, lineseg_source_view,
           engine_input, engine_output, main_window, persistence >>

\* the labelling MainWindow after construction.  line_segments and
\* modified are those of each patient's annotations, which a patient keeps
\* while another one is shown; _lineseg_drag_index is the 0-based index
MainPatients == {1, 2}
MainWindowInit ==
    [current_patient |-> 0,
     current_tool |-> "view",
     line_segments |-> [p \in MainPatients |-> << >>],
     modified |-> [p \in MainPatients |-> FALSE],
     lineseg_first_point |-> None,
     lineseg_plane |-> None,
     lineseg_slice |-> None,
     lineseg_dragging |-> FALSE,
     lineseg_drag_index |-> None,
     lineseg_drag_endpoint |-> None,
     lineseg_drag_plane |-> None,
     lineseg_drag_slice |-> None]

\* the window as one value, for the methods below; steps is not a field
\* of the window: it collects, in order, the steps of the geometry engine
\* that the handler being run executes
Window ==
    [current_patient |-> current_patient,
     annotations |-> annotations,
     lines |-> cardiac_line_segments,
     planes |-> oblique_planes,
     views |-> bottom_views,
     rotation |-> rotation_slider,
     mode |-> rotation_mode_combo,
     first_point |-> lineseg_first_point,
     source_view |-> lineseg_source_view,
     steps |-> << >>]

Becomes(w) ==
    /\ current_patient' = w.current_patient
    /\ annotations' = w.annotations
    /\ cardiac_line_segments' = w.lines
    /\ oblique_planes' = w.planes
    /\ bottom_views' = w.views
    /\ rotation_slider' = w.rotation
    /\ rotation_mode_combo' = w.mode
    /\ lineseg_first_point' = w.first_point
    /\ lineseg_source_view' = w.source_view
    /\ UNCHANGED << engine_input, engine_output, main_window, persistence >>

NoLines == [axial |-> None, p2ch |-> None, p4ch |-> None]
NoPlanes == [p2ch |-> None, p4ch |-> None, sax |-> None]

WindowInit ==
    /\ current_patient = 0
    /\ annotations = None
    /\ cardiac_line_segments = NoLines
    /\ oblique_planes = NoPlanes
    /\ bottom_views = [v \in BottomViews |-> NewView]
    /\ rotation_slider = 0
    /\ rotation_mode_combo = "long_axis"
    /\ lineseg_first_point = None
    /\ lineseg_source_view = None
    /\ main_window = MainWindowInit

\* no file has been written and no patient handed to the persistence
\* functions
EmptyDirectory == [json |-> None, npz |-> None]
PersistenceIdle ==
    [patient |-> None, annotations_dir |-> EmptyDirectory,
     volume_shape |-> << >>, saved |-> FALSE, loaded |-> None]

Init ==
    /\ WindowInit
    /\ engine_input = None
    /\ engine_output = None
    /\ persistence = PersistenceIdle

(***************************************************************************)
(* Methods of the CardiacViewWindow, as functions of the window value      *)
(***************************************************************************)
\* names of the engine steps a generation runs, collected in steps
P2CHSteps == << "create_p2ch_plane" >>
\* _generate_p4ch_view: projects the stored line's endpoints on the p2ch
\* plane, then runs the whole deriver (steps 1-9 of the derivation)
P4CHSteps == << "project_line_endpoints", "lift_endpoints", "long_axis",
                "base_normal", "rotate_normal", "axes_and_origin" >>
SAXSteps == << "project_line_endpoints", "create_sax_plane" >>

\* annotations.remove_line_segment(i) for the first i with
\* line_segments[i] is old_ls
RemoveLine(segs, old_ls) ==
    IF \E i \in 1..Len(segs) : segs[i] = old_ls
    THEN LET i == CHOOSE k \in 1..Len(segs) :
                     /\ segs[k] = old_ls
                     /\ \A j \in 1..(k - 1) : segs[j] # old_ls
         IN  SubSeq(segs, 1, i - 1) \o SubSeq(segs, i + 1, Len(segs))
    ELSE segs

\* _convert_2d_to_3d
convert_2d_to_3d(plane, slice_idx, x2d, y2d) ==
    CASE plane = "axial" -> << x2d, y2d, Vox(slice_idx) >>
      [] plane = "sagittal" -> << Vox(slice_idx), x2d, y2d >>
      [] OTHER -> << x2d, Vox(slice_idx), y2d >>

\* _clear_dependent_views('p4ch')
clear_from_p4ch_view_only(w) ==
    [w EXCEPT !.views.sax = clear_plane(@)]
clear_from_p4ch(w) ==
    [w EXCEPT !.views.sax = clear_plane(@),
              !.planes.sax = None]

\* _clear_dependent_views('p2ch')
clear_from_p2ch_no_cascade(w) ==
    [w EXCEPT !.views.p4ch = clear_plane(@),
              !.planes.p4ch = None,
              !.lines.p4ch = None]
clear_from_p2ch(w) ==
    clear_from_p4ch([w EXCEPT !.views.p4ch = clear_plane(@),
                              !.planes.p4ch = None,
                              !.lines.p4ch = None])

\* _clear_dependent_views('axial')
clear_from_axial_no_cascade(w) ==
    [w EXCEPT !.views.p2ch = clear_plane(@),
              !.planes.p2ch = None,
              !.lines.p2ch = None]
clear_from_axial(w) ==
    clear_from_p2ch([w EXCEPT !.views.p2ch = clear_plane(@),
                              !.planes.p2ch = None,
                              !.lines.p2ch = None])

clear_dependent_views(w, source) ==
    CASE source = "axial" -> clear_from_axial(w)
      [] source = "p2ch" -> clear_from_p2ch(w)
      [] source = "p4ch" -> clear_from_p4ch(w)
      [] OTHER -> w

\* _generate_p2ch_view
generate_p2ch_view(w) ==
    IF w.lines.axial = None \/ w.current_patient = 0 THEN w
    ELSE LET ls == Get(w.lines.axial)
             plane == create_p2ch_plane_from_axial_line(
                          ls.x1, ls.y1, ls.x2, ls.y2, ls.z1,
                          VolumeShape(w.current_patient))
         IN  [w EXCEPT !.planes.p2ch = Some(plane),
                       !.views.p2ch = set_plane(@, plane, DefaultScrollRange),
                       !.steps = @ \o P2CHSteps]

\* _generate_p4ch_view(rotation_degrees, rotation_mode); an argument left
\* out (None) is read from the p4ch view's slider or combo box
generate_p4ch_view(w, rotation_degrees, rotation_mode) ==
    IF \/ w.lines.p2ch = None
       \/ w.planes.p2ch = None
       \/ w.current_patient = 0
    THEN w
    ELSE LET ls == Get(w.lines.p2ch)
             p2ch_plane == Get(w.planes.p2ch)
             degrees == IF rotation_degrees = None THEN w.rotation
                        ELSE Get(rotation_degrees)
             mode == IF rotation_mode = None THEN w.mode
                     ELSE Get(rotation_mode)
             pos1 == map_3d_to_2d(p2ch_plane, End1(ls), DefaultTolerance)
             pos2 == map_3d_to_2d(p2ch_plane, End2(ls), DefaultTolerance)
         IN  IF pos1 = None \/ pos2 = None
             THEN [w EXCEPT !.steps = @ \o << "project_line_endpoints" >>]
             ELSE LET plane == create_p4ch_plane_from_p2ch_line(
                                   Get(pos1)[1], Get(pos1)[2],
                                   Get(pos2)[1], Get(pos2)[2],
                                   p2ch_plane,
                                   VolumeShape(w.current_patient),
                                   degrees, mode).plane
                  IN  [w EXCEPT
                         !.planes.p4ch = Some(plane),
                         !.views.p4ch = set_plane(@, plane, DefaultScrollRange),
                         !.steps = @ \o P4CHSteps]

\* _generate_sax_view
generate_sax_view(w) ==
    IF \/ w.lines.p4ch = None
       \/ w.planes.p4ch = None
       \/ w.current_patient = 0
    THEN w
    ELSE LET ls == Get(w.lines.p4ch)
             p4ch_plane == Get(w.planes.p4ch)
             shape == VolumeShape(w.current_patient)
             pos1 == map_3d_to_2d(p4ch_plane, End1(ls), DefaultTolerance)
             pos2 == map_3d_to_2d(p4ch_plane, End2(ls), DefaultTolerance)
             max_dim == Max(shape[1], Max(shape[2], shape[3]))
             scroll_range == << (-max_dim) \div 2, max_dim \div 2 >>
         IN  IF pos1 = None \/ pos2 = None
             THEN [w EXCEPT !.steps = @ \o << "project_line_endpoints" >>]
             ELSE LET plane == create_sax_plane_from_p4ch_line(
                                   Get(pos1)[1], Get(pos1)[2],
                                   Get(pos2)[1], Get(pos2)[2],
                                   p4ch_plane, shape)
                  IN  [w EXCEPT
                         !.planes.sax = Some(plane),
                         !.views.sax = set_plane(@, plane, scroll_range),
                         !.steps = @ \o SAXSteps]

\* _restore_cardiac_views_from_annotations
restore_cardiac_views_from_annotations(w) ==
    IF w.annotations = None THEN w
    ELSE LET segs == Get(w.annotations)
             axials == {i \in 1..Len(segs) : Abs(segs[i].z1 - segs[i].z2) < 1}
         IN  IF axials = {} \/ w.lines.axial # None THEN w
             ELSE LET first == CHOOSE i \in axials : \A j \in axials : i <= j
                  IN  generate_p2ch_view(
                          [w EXCEPT !.lines.axial = Some(segs[first])])

\* a _load_patient that clears the bottom views but forgets the window's
\* own bookkeeping of lines and planes
load_patient_keeping_bookkeeping(w, patient, loaded) ==
    restore_cardiac_views_from_annotations(
        [w EXCEPT !.current_patient = patient,
                  !.annotations = loaded,
                  !.views = [v \in BottomViews |-> clear_plane(w.views[v])]])

\* _load_patient; loaded is what load_patient_annotations returned, or the
\* fresh Annotations made when there is no annotations directory
load_patient(w, patient, loaded) ==
    restore_cardiac_views_from_annotations(
        [w EXCEPT !.current_patient = patient,
                  !.annotations = loaded,
                  !.views = [v \in BottomViews |-> clear_plane(w.views[v])],
                  !.lines = NoLines,
                  !.planes = NoPlanes])

\* what _load_patient gets for the patient's annotations.
\* load_patient_annotations reads keypoints and masks only, so the loaded
\* Annotations has no line segments; it is None when the annotations
\* directory holds no file for the patient (here: the even patients)
LoadedAnnotations(patient) ==
    IF patient % 2 = 1 THEN Some(<< >>) ELSE None

\* _on_top_view_mouse_pressed, left button
on_top_view_left_pressed(w, plane, slice_idx, scene_pos) ==
    [w EXCEPT !.first_point =
                  Some(convert_2d_to_3d(plane, slice_idx,
                                        scene_pos[1], scene_pos[2])),
              !.source_view = Some(plane)]

\* _on_top_view_mouse_pressed, right button
on_top_view_right_pressed(w, plane) ==
    IF plane = "axial" /\ w.lines.axial # None
    THEN LET old_ls == Get(w.lines.axial)
             w1 == IF w.annotations = None THEN w
                   ELSE [w EXCEPT !.annotations =
                            Some(RemoveLine(Get(w.annotations), old_ls))]
         IN  clear_dependent_views([w1 EXCEPT !.lines.axial = None], "axial")
    ELSE w

\* _on_top_view_mouse_released, left button
on_top_view_mouse_released_any_plane(w, plane, slice_idx, scene_pos) ==
    IF w.first_point # None /\ w.source_view = Some(plane)
    THEN LET ls == LineSegment(Get(w.first_point),
                               convert_2d_to_3d(plane, slice_idx,
                                                scene_pos[1], scene_pos[2]),
                               << plane, "cardiac" >>)
             added == IF w.annotations = None THEN None
                      ELSE Some(Append(Get(w.annotations), ls))
         IN  [w EXCEPT !.lines.axial = Some(ls), !.annotations = added,
                       !.first_point = None, !.source_view = None]
    ELSE w
on_top_view_mouse_released(w, plane, slice_idx, scene_pos) ==
    IF w.first_point # None /\ w.source_view = Some(plane)
    THEN LET ls == LineSegment(Get(w.first_point),
                               convert_2d_to_3d(plane, slice_idx,
                                                scene_pos[1], scene_pos[2]),
                               << plane, "cardiac" >>)
             removed == IF w.lines.axial = None \/ w.annotations = None
                        THEN w.annotations
                        ELSE Some(RemoveLine(Get(w.annotations),
                                             Get(w.lines.axial)))
             added == IF removed = None THEN None
                      ELSE Some(Append(Get(removed), ls))
             w1 == IF plane = "axial"
                   THEN generate_p2ch_view(
                            clear_dependent_views(
                                [w EXCEPT !.lines.axial = Some(ls),
                                          !.annotations = added],
                                "axial"))
                   ELSE w
         IN  [w1 EXCEPT !.first_point = None, !.source_view = None]
    ELSE w

\* _on_oblique_view_mouse_pressed, left button
on_oblique_view_left_pressed(w, view_name, scene_pos) ==
    LET pos_3d == view_map_2d_to_3d(w.views[view_name],
                                    scene_pos[1], scene_pos[2])
    IN  IF pos_3d # None
        THEN [w EXCEPT !.first_point = pos_3d,
                       !.source_view = Some(view_name)]
        ELSE w

\* _on_oblique_view_mouse_pressed, right button
on_oblique_view_right_pressed(w, view_name) ==
    IF view_name = "p2ch" /\ w.lines.p2ch # None
    THEN LET w1 == clear_dependent_views([w EXCEPT !.lines.p2ch = None],
                                         "p2ch")
         IN  [w1 EXCEPT !.views.p2ch = set_line_segment(@, None)]
    ELSE IF view_name = "p4ch" /\ w.lines.p4ch # None
    THEN LET w1 == clear_dependent_views([w EXCEPT !.lines.p4ch = None],
                                         "p4ch")
         IN  [w1 EXCEPT !.views.p4ch = set_line_segment(@, None)]
    ELSE w

\* _on_oblique_view_mouse_released, left button
on_oblique_view_mouse_released(w, view_name, scene_pos) ==
    IF w.first_point # None /\ w.source_view = Some(view_name)
    THEN LET pos_3d == view_map_2d_to_3d(w.views[view_name],
                                         scene_pos[1], scene_pos[2])
             ls == LineSegment(Get(w.first_point), Get(pos_3d),
                               << view_name, "cardiac" >>)
             w1 == IF pos_3d = None THEN w
                   ELSE IF view_name = "p2ch"
                   THEN generate_p4ch_view(
                            [w EXCEPT !.lines.p2ch = Some(ls),
                                      !.views.p2ch =
                                          set_line_segment(@, Some(ls))],
                            None, None)
                   ELSE IF view_name = "p4ch"
                   THEN generate_sax_view(
                            [w EXCEPT !.lines.p4ch = Some(ls),
                                      !.views.p4ch =
                                          set_line_segment(@, Some(ls))])
                   ELSE w
         IN  [w1 EXCEPT !.first_point = None, !.source_view = None]
    ELSE w

\* the rotation slider moves to value: ObliqueSliceView._on_rotation_changed
\* emits rotation_changed, handled by _on_p4ch_rotation_changed
on_p4ch_rotation_changed(w, rotation_degrees) ==
    generate_p4ch_view([w EXCEPT !.rotation = rotation_degrees],
                       Some(rotation_degrees), None)

\* the mode combo box changes: _on_rotation_mode_changed emits
\* rotation_mode_changed, handled by _on_p4ch_rotation_mode_changed
on_p4ch_rotation_mode_changed(w, rotation_mode) ==
    generate_p4ch_view([w EXCEPT !.mode = rotation_mode],
                       None, Some(rotation_mode))

(***************************************************************************)
(* Events                                                                  *)
(***************************************************************************)
\* a patient is selected in the list (or the folder is opened)
LoadPatient ==
    \E p \in Patients :
        /\ p \in Patients
        /\ Becomes(load_patient(Window, p, LoadedAnnotations(p)))

\* SliceView emits mouse_pressed only inside the image, which it shows
\* once a volume is set
TopLeftPress ==
    \E plane \in TopViews :
      \E i \in ClicksOn(plane) :
        /\ current_patient # 0
        /\ LET shape == VolumeShape(current_patient)
               pix == TopPixmap(plane, shape)
           IN  /\ is_in_image_bounds(pix[1], pix[2], ScenePos(plane, i))
               /\ Becomes(on_top_view_left_pressed(
                      Window, plane, CurrentSlice(plane, shape),
                      ScenePos(plane, i)))

TopRightPress ==
    \E plane \in TopViews :
      \E i \in ClicksOn(plane) :
        /\ current_patient # 0
        /\ LET shape == VolumeShape(current_patient)
               pix == TopPixmap(plane, shape)
           IN  /\ is_in_image_bounds(pix[1], pix[2], ScenePos(plane, i))
               /\ Becomes(on_top_view_right_pressed(Window, plane))

\* mouse_released is emitted wherever the mouse is
TopRelease ==
    \E plane \in TopViews :
      \E i \in ClicksOn(plane) :
        /\ current_patient # 0
        /\ Becomes(on_top_view_mouse_released(
               Window, plane,
               CurrentSlice(plane, VolumeShape(current_patient)),
               ScenePos(plane, i)))

\* ObliqueSliceView emits mouse_pressed only inside the image, which it
\* shows while it has a plane
ObliqueInBounds(view_name, pos) ==
    /\ bottom_views[view_name].plane # None
    /\ is_in_image_bounds(Get(bottom_views[view_name].plane).width,
                          Get(bottom_views[view_name].plane).height, pos)

ObliqueLeftPress ==
    \E view_name \in BottomViews :
      \E i \in ClicksOn(view_name) :
        /\ ObliqueInBounds(view_name, ScenePos(view_name, i))
        /\ Becomes(on_oblique_view_left_pressed(
               Window, view_name, ScenePos(view_name, i)))

ObliqueRightPress ==
    \E view_name \in BottomViews :
      \E i \in ClicksOn(view_name) :
        /\ ObliqueInBounds(view_name, ScenePos(view_name, i))
        /\ Becomes(on_oblique_view_right_pressed(Window, view_name))

ObliqueRelease ==
    \E view_name \in BottomViews :
      \E i \in ClicksOn(view_name) :
        /\ view_name \in BottomViews
        /\ Becomes(on_oblique_view_mouse_released(
               Window, view_name, ScenePos(view_name, i)))

\* QSlider.valueChanged fires when the value changes
RotationChanged ==
    \E d \in Angles :
        /\ d # rotation_slider
        /\ Becomes(on_p4ch_rotation_changed(Window, d))

\* QComboBox.currentIndexChanged fires when the index changes
RotationModeChanged ==
    \E m \in Modes :
        /\ m # rotation_mode_combo
        /\ Becomes(on_p4ch_rotation_mode_changed(Window, m))

Next ==
    \/ LoadPatient
    \/ TopLeftPress
    \/ TopRightPress
    \/ TopRelease
    \/ ObliqueLeftPress
    \/ ObliqueRightPress
    \/ ObliqueRelease
    \/ RotationChanged
    \/ RotationModeChanged

Spec == Init /\ [][Next]_vars

(***************************************************************************)
(* Scrolling through the short-axis family.  The window starts with a      *)
(* patient loaded and the pipeline drawn up to the P4CH view; lines are    *)
(* drawn and removed on the bottom views, the scroll slider is moved and   *)
(* the wheel is turned.  The second patient's volume has an odd largest    *)
(* dimension.                                                              *)
(***************************************************************************)
ScrollPatients == {1, 2}
InitialWindow ==
    [current_patient |-> 0,
     annotations |-> None,
     lines |-> NoLines,
     planes |-> NoPlanes,
     views |-> [v \in BottomViews |-> NewView],
     rotation |-> 0,
     mode |-> "long_axis",
     first_point |-> None,
     source_view |-> None,
     steps |-> << >>]
\* the windows after loading the patient, pressing on the axial view,
\* releasing there, pressing on the P2CH view, and releasing there: each
\* handler applied to the window the one before it left
AfterLoad(patient) ==
    {load_patient(InitialWindow, patient, LoadedAnnotations(patient))}
AfterAxialPress(patient) ==
    {on_top_view_left_pressed(
         w, "axial", CurrentSlice("axial", VolumeShape(patient)),
         ScenePos("axial", 1)) : w \in AfterLoad(patient)}
AfterAxialRelease(patient) ==
    {on_top_view_mouse_released(
         w, "axial", CurrentSlice("axial", VolumeShape(patient)),
         ScenePos("axial", 2)) : w \in AfterAxialPress(patient)}
AfterP2CHPress(patient) ==
    {on_oblique_view_left_pressed(w, "p2ch", ScenePos("p2ch", 1)) :
         w \in AfterAxialRelease(patient)}
P4CHReadyWindows(patient) ==
    {on_oblique_view_mouse_released(w, "p2ch", ScenePos("p2ch", 2)) :
         w \in AfterP2CHPress(patient)}
\* positions the user drags the slider to: both ends, next to the lower
\* end, the middle
SliderValues(view) ==
    {view.scroll_range[1], view.scroll_range[1] + 1, 0, view.scroll_range[2]}

ScrollInit ==
    \E patient \in ScrollPatients :
      \E w \in P4CHReadyWindows(patient) :
        /\ current_patient = w.current_patient
        /\ annotations = w.annotations
        /\ cardiac_line_segments = w.lines
        /\ oblique_planes = w.planes
        /\ bottom_views = w.views
        /\ rotation_slider = w.rotation
        /\ rotation_mode_combo = w.mode
        /\ lineseg_first_point = w.first_point
        /\ lineseg_source_view = w.source_view
        /\ engine_input = None
        /\ engine_output = None
        /\ main_window = MainWindowInit
        /\ persistence = PersistenceIdle

\* the user moves the scroll slider of a scrollable view
SliderMoved ==
    \E view_name \in BottomViews :
      \E value \in SliderValues(bottom_views[view_name]) :
        /\ scrollable(view_name)
        /\ value # bottom_views[view_name].scroll_offset
        /\ Becomes([Window EXCEPT
                       !.views[view_name] = on_slider_changed(@, value)])

\* a wheel event on the viewport of a view, which is visible while the
\* view has a plane
WheelTurned ==
    \E view_name \in BottomViews :
      \E up \in BOOLEAN :
        /\ Present(bottom_views[view_name].plane)
        /\ Becomes([Window EXCEPT
                       !.views[view_name] =
                           handle_wheel(@, scrollable(view_name), up)])

ScrollNext ==
    \/ ObliqueLeftPress
    \/ ObliqueRightPress
    \/ ObliqueRelease
    \/ SliderMoved
    \/ WheelTurned

ScrollSpec == ScrollInit /\ [][ScrollNext]_vars

(***************************************************************************)
(* The labelling main window: the line-segment tool.  Coordinates are in   *)
(* voxels.  A line segment carries an id, which stands for the identity of *)
(* the LineSegment object.                                                 *)
(***************************************************************************)
MaxSegments == 2
MainTools == {"view", "lineseg"}
MainPlanes == {"axial", "coronal"}
\* SliceView.current_slice of the two views
MainSlice(plane) == IF plane = "axial" THEN 4 ELSE 10
\* scene positions of the mouse: all of them lift to the line y = 10,
\* z = 4, which both views show
MainClicks(plane) ==
    IF plane = "axial" THEN {<< 0, 10 >>, << 40, 10 >>} ELSE {<< 40, 4 >>}
\* the conversion at the head of _handle_lineseg_click,
\* _remove_line_segment and _continue_lineseg_drag
main_convert_2d_to_3d(plane, slice_idx, scene_pos) ==
    CASE plane = "axial" -> << scene_pos[1], scene_pos[2], slice_idx >>
      [] plane = "sagittal" -> << slice_idx, scene_pos[1], scene_pos[2] >>
      [] OTHER -> << scene_pos[1], slice_idx, scene_pos[2] >>

\* LineSegment.get_2d_positions, tolerance 0.5
get_2d_positions(ls, plane, slice_index) ==
    CASE plane = "axial" ->
             IF /\ 2 * Abs(ls.z1 - slice_index) <= 1
                /\ 2 * Abs(ls.z2 - slice_index) <= 1
             THEN Some(<< << ls.x1, ls.y1 >>, << ls.x2, ls.y2 >> >>)
             ELSE None
      [] plane = "sagittal" ->
             IF /\ 2 * Abs(ls.x1 - slice_index) <= 1
                /\ 2 * Abs(ls.x2 - slice_index) <= 1
             THEN Some(<< << ls.y1, ls.z1 >>, << ls.y2, ls.z2 >> >>)
             ELSE None
      [] OTHER ->
             IF /\ 2 * Abs(ls.y1 - slice_index) <= 1
                /\ 2 * Abs(ls.y2 - slice_index) <= 1
             THEN Some(<< << ls.x1, ls.z1 >>, << ls.x2, ls.z2 >> >>)
             ELSE None

\* Annotations.remove_line_segment(index), index 0-based
remove_line_segment_at(segs, index) ==
    IF 0 <= index /\ index < Len(segs)
    THEN SubSeq(segs, 1, index) \o SubSeq(segs, index + 2, Len(segs))
    ELSE segs

\* point_to_segment_distance, squared, as a fraction << num, den >>
point_to_segment_distance(point, ls) ==
    LET d == << ls.x2 - ls.x1, ls.y2 - ls.y1, ls.z2 - ls.z1 >>
        f == << point[1] - ls.x1, point[2] - ls.y1, point[3] - ls.z1 >>
        g == << point[1] - ls.x2, point[2] - ls.y2, point[3] - ls.z2 >>
        segment_len_sq == Dot(d, d)
    IN  IF segment_len_sq = 0 THEN << Dot(f, f), 1 >>
        ELSE IF Dot(f, d) <= 0 THEN << Dot(f, f), 1 >>
        ELSE IF Dot(f, d) >= segment_len_sq THEN << Dot(g, g), 1 >>
        ELSE << Dot(f, f) * segment_len_sq - Dot(f, d) * Dot(f, d),
                segment_len_sq >>
Nearer(a, b) == a[1] * b[2] < b[1] * a[2]
RemoveMaxDistance == 15
\* Annotations.remove_nearest_line_segment: the 0-based index it removes,
\* or None.  The sort is stable, so of equally near segments the first wins
nearest_line_segment(segs, point) ==
    IF segs = << >> THEN None
    ELSE LET dist(i) == point_to_segment_distance(point, segs[i])
             first == CHOOSE i \in 1..Len(segs) :
                          /\ \A j \in 1..Len(segs) : ~Nearer(dist(j), dist(i))
                          /\ \A j \in 1..(i - 1) : Nearer(dist(i), dist(j))
         IN  IF dist(first)[1]
                    <= RemoveMaxDistance * RemoveMaxDistance * dist(first)[2]
             THEN Some(first - 1)
             ELSE None

\* _cancel_lineseg
cancel_lineseg(m) ==
    [m EXCEPT !.lineseg_first_point = None,
              !.lineseg_plane = None,
              !.lineseg_slice = None]

\* the id of a LineSegment made now: one that no segment has
NewId(m) ==
    CHOOSE id \in 1..(MaxSegments + 1) :
        /\ \A p \in MainPatients : \A i \in 1..Len(m.line_segments[p]) :
               m.line_segments[p][i].id # id
        /\ \A smaller \in 1..(id - 1) :
               \E p \in MainPatients : \E i \in 1..Len(m.line_segments[p]) :
                   m.line_segments[p][i].id = smaller

\* _handle_lineseg_click
handle_lineseg_click(m, plane, slice_idx, scene_pos) ==
    LET point == main_convert_2d_to_3d(plane, slice_idx, scene_pos)
    IN  IF m.lineseg_first_point = None
        THEN [m EXCEPT !.lineseg_first_point = Some(point),
                       !.lineseg_plane = Some(plane),
                       !.lineseg_slice = Some(slice_idx)]
        ELSE IF \/ Some(plane) # m.lineseg_plane
                \/ Some(slice_idx) # m.lineseg_slice
        THEN cancel_lineseg(m)
        ELSE LET first == Get(m.lineseg_first_point)
                 ls == [id |-> NewId(m),
                        x1 |-> first[1], y1 |-> first[2], z1 |-> first[3],
                        x2 |-> point[1], y2 |-> point[2], z2 |-> point[3]]
             IN  cancel_lineseg(
                     [m EXCEPT
                        !.line_segments[m.current_patient] = Append(@, ls),
                        !.modified[m.current_patient] = TRUE])

\* _remove_line_segment
remove_line_segment(m, plane, slice_idx, scene_pos) ==
    LET point == main_convert_2d_to_3d(plane, slice_idx, scene_pos)
        segs == m.line_segments[m.current_patient]
        nearest == nearest_line_segment(segs, point)
    IN  IF nearest = None THEN m
        ELSE [m EXCEPT !.line_segments[m.current_patient] =
                           remove_line_segment_at(segs, Get(nearest)),
                       !.modified[m.current_patient] = TRUE]

DragMaxDistance == 15
\* the endpoint _start_lineseg_drag picks: the first of the nearest
\* endpoints of the segments on the slice, if within 15 pixels
drag_candidate(m, plane, slice_idx, scene_pos) ==
    LET segs == m.line_segments[m.current_patient]
        on_slice == {i \in 1..Len(segs) :
                        Present(get_2d_positions(segs[i], plane, slice_idx))}
        dist_sq(i, endpoint) ==
            LET pos == Get(get_2d_positions(segs[i], plane, slice_idx))
                at == IF endpoint = "start" THEN pos[1] ELSE pos[2]
            IN  (scene_pos[1] - at[1]) * (scene_pos[1] - at[1])
                    + (scene_pos[2] - at[2]) * (scene_pos[2] - at[2])
        order(c) == 2 * c[1] + (IF c[2] = "start" THEN 0 ELSE 1)
        candidates == on_slice \X {"start", "end"}
    IN  IF candidates = {} THEN None
        ELSE LET best == CHOOSE c \in candidates :
                             \A o \in candidates :
                                 \/ dist_sq(c[1], c[2]) < dist_sq(o[1], o[2])
                                 \/ /\ dist_sq(c[1], c[2]) = dist_sq(o[1], o[2])
                                    /\ order(c) <= order(o)
             IN  IF dist_sq(best[1], best[2])
                        > DragMaxDistance * DragMaxDistance
                 THEN None
                 ELSE Some(<< best[1] - 1, best[2] >>)

\* _start_lineseg_drag, when it returns True
start_lineseg_drag(m, plane, slice_idx, scene_pos) ==
    LET best == Get(drag_candidate(m, plane, slice_idx, scene_pos))
    IN  [m EXCEPT !.lineseg_dragging = TRUE,
                  !.lineseg_drag_index = Some(best[1]),
                  !.lineseg_drag_endpoint = Some(best[2]),
                  !.lineseg_drag_plane = Some(plane),
                  !.lineseg_drag_slice = Some(slice_idx)]

\* line_segments[self._lineseg_drag_index] in _continue_lineseg_drag
\* raises IndexError
RaisesIndexError(m) ==
    Get(m.lineseg_drag_index) >= Len(m.line_segments[m.current_patient])

\* _continue_lineseg_drag; when the lookup raises, the handler ends there
continue_lineseg_drag(m, plane, slice_idx, scene_pos) ==
    IF ~m.lineseg_dragging THEN m
    ELSE IF Some(plane) # m.lineseg_drag_plane THEN m
    ELSE IF RaisesIndexError(m) THEN m
    ELSE LET new == main_convert_2d_to_3d(plane, slice_idx, scene_pos)
             at == Get(m.lineseg_drag_index) + 1
         IN  [m EXCEPT
                !.line_segments[m.current_patient][at] =
                    IF m.lineseg_drag_endpoint = Some("start")
                    THEN [@ EXCEPT !.x1 = new[1], !.y1 = new[2],
                                   !.z1 = new[3]]
                    ELSE [@ EXCEPT !.x2 = new[1], !.y2 = new[2],
                                   !.z2 = new[3]],
                !.modified[m.current_patient] = TRUE]

\* _end_lineseg_drag; an IndexError of _continue_lineseg_drag leaves the
\* drag state as it is
end_lineseg_drag(m, plane, slice_idx, scene_pos) ==
    IF ~m.lineseg_dragging THEN m
    ELSE IF Some(plane) = m.lineseg_drag_plane /\ RaisesIndexError(m) THEN m
    ELSE [continue_lineseg_drag(m, plane, slice_idx, scene_pos) EXCEPT
              !.lineseg_dragging = FALSE,
              !.lineseg_drag_index = None,
              !.lineseg_drag_endpoint = None,
              !.lineseg_drag_plane = None,
              !.lineseg_drag_slice = None]

\* _on_view_mouse_pressed, for the view and lineseg tools
on_view_mouse_pressed(m, plane, slice_idx, scene_pos, button, shift) ==
    IF m.current_patient = 0 THEN m
    ELSE IF button = "left"
    THEN IF /\ m.current_tool = "lineseg"
            /\ shift
            /\ Present(drag_candidate(m, plane, slice_idx, scene_pos))
         THEN start_lineseg_drag(m, plane, slice_idx, scene_pos)
         ELSE IF m.current_tool = "lineseg"
         THEN handle_lineseg_click(m, plane, slice_idx, scene_pos)
         ELSE m
    ELSE IF m.current_tool = "lineseg"
    THEN remove_line_segment(m, plane, slice_idx, scene_pos)
    ELSE m

\* _on_view_mouse_moved, no brush stroke or segment being drawn
on_view_mouse_moved(m, plane, slice_idx, scene_pos) ==
    IF m.current_patient = 0 THEN m
    ELSE IF m.lineseg_dragging
    THEN continue_lineseg_drag(m, plane, slice_idx, scene_pos)
    ELSE m

\* _on_view_mouse_released, no brush stroke or segment being drawn
on_view_mouse_released(m, plane, slice_idx, scene_pos, button) ==
    IF m.current_patient = 0 THEN m
    ELSE IF button = "left" /\ m.lineseg_dragging
    THEN end_lineseg_drag(m, plane, slice_idx, scene_pos)
    ELSE m

\* _on_tool_changed
on_tool_changed(m, tool_name) ==
    [(IF m.lineseg_first_point # None THEN cancel_lineseg(m) ELSE m)
        EXCEPT !.current_tool = tool_name]

\* MainWindow._load_patient; continue_anyway is the answer to the
\* question asked when the shown patient has unsaved changes
main_load_patient(m, patient, continue_anyway) ==
    IF /\ m.current_patient # 0
       /\ m.modified[m.current_patient]
       /\ ~continue_anyway
    THEN m
    ELSE [m EXCEPT !.current_patient = patient]

\* the main window takes the value m; the planning window is not touched
MainBecomes(m) ==
    /\ main_window' = m
    /\ UNCHANGED << current_patient, annotations, cardiac_line_segments,
                    oblique_planes, bottom_views, rotation_slider,
                    rotation_mode_combo, lineseg_first_point,
                    lineseg_source_view, engine_input, engine_output,
                    persistence >>

MainPatientSelected ==
    \E patient \in MainPatients :
      \E continue_anyway \in BOOLEAN :
        /\ patient \in MainPatients
        /\ MainBecomes(main_load_patient(main_window, patient,
                                         continue_anyway))

MainToolChanged ==
    \E tool_name \in MainTools :
        /\ tool_name \in MainTools
        /\ MainBecomes(on_tool_changed(main_window, tool_name))

\* the number of line segments of all patients together
NumSegments(m) ==
    LET RECURSIVE Sum(_)
        Sum(ps) == IF ps = {} THEN 0
                   ELSE LET p == CHOOSE q \in ps : TRUE
                        IN  Len(m.line_segments[p]) + Sum(ps \ {p})
    IN  Sum(MainPatients)

\* SliceView emits mouse_pressed inside the image, which it shows once a
\* volume is set.  A click that would make more than MaxSegments line
\* segments in all is left out
MainMousePressed ==
    \E plane \in MainPlanes :
      \E scene_pos \in MainClicks(plane) :
        \E button \in {"left", "right"} :
          \E shift \in BOOLEAN :
            /\ main_window.current_patient # 0
            /\ LET after == on_view_mouse_pressed(
                                main_window, plane, MainSlice(plane),
                                scene_pos, button, shift)
               IN  /\ NumSegments(after) <= MaxSegments
                   /\ MainBecomes(after)

MainMouseMoved ==
    \E plane \in MainPlanes :
      \E scene_pos \in MainClicks(plane) :
        /\ plane \in MainPlanes
        /\ MainBecomes(on_view_mouse_moved(main_window, plane,
                                           MainSlice(plane), scene_pos))

MainMouseReleased ==
    \E plane \in MainPlanes :
      \E scene_pos \in MainClicks(plane) :
        \E button \in {"left", "right"} :
          /\ plane \in MainPlanes
          /\ MainBecomes(on_view_mouse_released(
                 main_window, plane, MainSlice(plane), scene_pos, button))

MainNext ==
    \/ MainPatientSelected
    \/ MainToolChanged
    \/ MainMousePressed
    \/ MainMouseMoved
    \/ MainMouseReleased

MainSpec == Init /\ [][MainNext]_vars

(***************************************************************************)
(* Saving and loading annotations (core/persistence.py).  A Python tuple   *)
(* is a sequence and a Python list is [list |-> sequence], so that what    *)
(* to_dict writes differs from the field it was made of; a dict is a       *)
(* function of its keys.  An array is its shape and its voxels in order.   *)
(* annotations_dir holds the two files of the one patient: json is         *)
(* <patient_id>.json and npz is <patient_id>_masks.npz.                    *)
(***************************************************************************)
list(tuple_value) == [list |-> tuple_value]
tuple(list_value) == list_value.list
\* str(label_id), int(label_id_str) and f"label_{label_id}"
label_str(label_id) == IF label_id = 1 THEN "1" ELSE "2"
label_int(label_id_str) == IF label_id_str = "1" THEN 1 ELSE 2
mask_key(label_id) == IF label_id = 1 THEN "label_1" ELSE "label_2"

\* Keypoint.to_dict and Keypoint.from_dict
Keypoint_to_dict(kp) ==
    [x |-> kp.x, y |-> kp.y, z |-> kp.z, label |-> kp.label,
     color |-> list(kp.color)]
Keypoint_from_dict(d) ==
    [x |-> d.x, y |-> d.y, z |-> d.z, label |-> d.label,
     color |-> tuple(d.color)]
\* MaskAnnotation.has_data: np.any(self.mask > 0)
has_data(mask_ann) ==
    \E i \in DOMAIN mask_ann.mask.voxels : mask_ann.mask.voxels[i] > 0
\* Annotations.mark_saved
mark_saved(ann) == [ann EXCEPT !.modified = FALSE]

\* save_patient_annotations: the patient and the directory as the call
\* leaves them.  The npz file is written only if some mask has data;
\* otherwise a file of that name stays as it was
save_patient_annotations(patient, output_dir) ==
    IF Absent(patient.annotations)
    THEN [patient |-> patient, dir |-> output_dir]
    ELSE LET ann == Get(patient.annotations)
             with_data == {label_id \in DOMAIN ann.masks :
                               has_data(ann.masks[label_id])}
             json_data ==
                 [patient_id |-> ann.patient_id,
                  image_path |-> patient.image_path,
                  mask_path |-> patient.mask_path,
                  keypoints |-> [i \in DOMAIN ann.keypoints |->
                                     Keypoint_to_dict(ann.keypoints[i])],
                  masks |-> [s \in {label_str(l) : l \in with_data} |->
                                [label_name |->
                                     ann.masks[label_int(s)].label_name,
                                 color |->
                                     list(ann.masks[label_int(s)].color)]]]
             mask_arrays ==
                 [k \in {mask_key(l) : l \in with_data} |->
                      ann.masks[CHOOSE l \in with_data : mask_key(l) = k].mask]
         IN  [patient |-> [patient EXCEPT
                               !.annotations = Some(mark_saved(ann))],
              dir |-> [json |-> Some(json_data),
                       npz |-> IF with_data # {}
                               THEN Some(mask_arrays)
                               ELSE output_dir.npz]]

\* load_patient_annotations: None, or the Annotations it returns.  It
\* reads "keypoints" and "masks" of the JSON file and nothing else
load_patient_annotations(patient_id, annotations_dir, volume_shape) ==
    IF Absent(annotations_dir.json)
    THEN None
    ELSE LET data == Get(annotations_dir.json)
             mask_data == Get(annotations_dir.npz)
             loadable ==
                 IF Absent(annotations_dir.npz)
                 THEN {}
                 ELSE {s \in DOMAIN data.masks :
                           /\ mask_key(label_int(s)) \in DOMAIN mask_data
                           /\ mask_data[mask_key(label_int(s))].shape
                                  = volume_shape}
         IN  Some([patient_id |-> patient_id,
                   keypoints |-> [i \in DOMAIN data.keypoints |->
                                      Keypoint_from_dict(data.keypoints[i])],
                   line_segments |-> << >>,
                   masks |-> [l \in {label_int(s) : s \in loadable} |->
                                 [label_id |-> l,
                                  label_name |->
                                      data.masks[label_str(l)].label_name,
                                  mask |-> mask_data[mask_key(l)],
                                  color |->
                                      tuple(data.masks[label_str(l)].color)]],
                   modified |-> FALSE])

\* the patients, annotations and directories that the calls are made with
PersistShape == << 2, 1, 1 >>
ApexKeypoint ==
    [x |-> 3, y |-> 4, z |-> 2, label |-> "apex", color |-> << 255, 0, 0 >>]
BaseKeypoint ==
    [x |-> 5, y |-> 1, z |-> 0, label |-> "", color |-> << 0, 0, 255 >>]
PersistKeypoints ==
    {<< >>, << ApexKeypoint >>, << ApexKeypoint, BaseKeypoint >>,
     << BaseKeypoint, ApexKeypoint >>}
LongAxisSegment ==
    [x1 |-> 1, y1 |-> 2, z1 |-> 1, x2 |-> 6, y2 |-> 2, z2 |-> 1,
     label |-> "long axis", color |-> << 255, 255, 0 >>]
PersistLineSegments == {<< >>, << LongAxisSegment >>}
PaintedMask(label_id) ==
    [label_id |-> label_id, label_name |-> "LV",
     mask |-> [shape |-> PersistShape, voxels |-> << 0, 255 >>],
     color |-> << 0, 255, 0 >>]
BlankMask(label_id) ==
    [label_id |-> label_id, label_name |-> "RV",
     mask |-> [shape |-> PersistShape, voxels |-> << 0, 0 >>],
     color |-> << 255, 0, 255 >>]
PersistMasks ==
    {[l \in {} |-> BlankMask(l)],
     [l \in {1} |-> PaintedMask(l)],
     [l \in {1} |-> BlankMask(l)],
     [l \in {1, 2} |-> IF l = 1 THEN PaintedMask(l) ELSE BlankMask(l)],
     [l \in {1, 2} |-> IF l = 1 THEN BlankMask(l) ELSE PaintedMask(l)]}
PersistAnnotations ==
    [patient_id : {"p1"}, keypoints : PersistKeypoints,
     line_segments : PersistLineSegments, masks : PersistMasks,
     modified : BOOLEAN]
PersistPatients ==
    [patient_id : {"p1"}, image_path : {"data/p1.nii.gz"},
     mask_path : {None},
     annotations : {None} \cup {Some(ann) : ann \in PersistAnnotations}]
\* what an earlier session left in the directory: a keypoint and the mask
\* of label 1
EarlierPatient ==
    [patient_id |-> "p1", image_path |-> "data/p1.nii.gz",
     mask_path |-> None,
     annotations |->
         Some([patient_id |-> "p1", keypoints |-> << BaseKeypoint >>,
               line_segments |-> << >>,
               masks |-> [l \in {1} |-> PaintedMask(l)],
               modified |-> TRUE])]
PersistDirectories ==
    {EmptyDirectory,
     save_patient_annotations(EarlierPatient, EmptyDirectory).dir}

PersistInit ==
    /\ WindowInit
    /\ engine_input = None
    /\ engine_output = None
    /\ persistence \in
           [patient : {Some(patient) : patient \in PersistPatients},
            annotations_dir : PersistDirectories,
            volume_shape : {PersistShape},
            saved : {FALSE}, loaded : {None}]

PersistBecomes(p) ==
    /\ persistence' = p
    /\ UNCHANGED << current_patient, annotations, cardiac_line_segments,
                    oblique_planes, bottom_views, rotation_slider,
                    rotation_mode_combo, lineseg_first_point,
                    lineseg_source_view, engine_input, engine_output,
                    main_window >>

\* a call of save_patient_annotations; what an earlier load returned is
\* dropped
SavePatientAnnotations ==
    /\ Present(persistence.patient)
    /\ \E r \in {save_patient_annotations(Get(persistence.patient),
                                          persistence.annotations_dir)} :
         PersistBecomes([persistence EXCEPT
                             !.patient = Some(r.patient),
                             !.annotations_dir = r.dir,
                             !.saved = TRUE,
                             !.loaded = None])

\* a call of load_patient_annotations with the patient's id and the
\* volume's shape; loaded holds what it returned
LoadPatientAnnotations ==
    /\ Present(persistence.patient)
    /\ PersistBecomes([persistence EXCEPT !.loaded =
           Some(load_patient_annotations(
                    Get(persistence.patient).patient_id,
                    persistence.annotations_dir,
                    persistence.volume_shape))])

PersistNext ==
    \/ SavePatientAnnotations
    \/ LoadPatientAnnotations

PersistSpec == PersistInit /\ [][PersistNext]_vars

(***************************************************************************)
(* The geometry engine on its own: a call of the P4CH deriver with         *)
(* arguments drawn from bounded sets.  Lines run along a pixel row or      *)
(* column (or have no length) and angles are multiples of 90 degrees, so   *)
(* that every norm, sine and cosine is an integer.                         *)
(***************************************************************************)
EngineShape == << 8, 20, 20 >>
\* the slider's range -180..180 in quarter turns, and 270 and 360, which the
\* deriver takes as well
EngineAngles == {90 * k : k \in -2..4}
\* axial lines and the slice they are drawn on
EngineAxialPoints == {<< Vox(x), Vox(y) >> : x \in {6, 10}, y \in {6, 10}}
AlongRowOrColumn(a, b) == a[1] = b[1] \/ a[2] = b[2]
EngineP2CHPlanes ==
    {create_p2ch_plane_from_axial_line(a[1], a[2], b[1], b[2], Vox(3),
                                       EngineShape) :
        << a, b >> \in {ab \in EngineAxialPoints \X EngineAxialPoints :
                            AlongRowOrColumn(ab[1], ab[2])}}
\* lines on the p2ch view, in pixels of the view
EngineP2CHPoints == {<< Vox(x), Vox(y) >> : x \in {5, 15}, y \in {2, 6}}
EngineP2CHLines ==
    {ab \in EngineP2CHPoints \X EngineP2CHPoints :
        AlongRowOrColumn(ab[1], ab[2])}
\* a plane as a caller can build it, with unit axes and a unit normal that
\* lies along its u_axis: the normal is parallel to the long axis of every
\* line drawn along a pixel row
ParallelNormalPlane ==
    ObliquePlane(<< Vox(8), Vox(6), Vox(4) >>, << 1, 0, 0 >>, << 0, 0, -1 >>,
                 << 1, 0, 0 >>, 30, 8)
P4CHInputs ==
    [op : {"create_p4ch_plane_from_p2ch_line"},
     p2ch_plane : EngineP2CHPlanes \cup {ParallelNormalPlane},
     line : EngineP2CHLines,
     rotation_degrees : EngineAngles, rotation_mode : Modes]

\* create_p4ch_plane_from_p2ch_line(..., return_rotation_info=True) on the
\* arguments in, at the angle rotation_degrees
P4CHResultAt(in, rotation_degrees) ==
    create_p4ch_plane_from_p2ch_line(
        in.line[1][1], in.line[1][2], in.line[2][1], in.line[2][2],
        in.p2ch_plane, EngineShape, rotation_degrees, in.rotation_mode)

\* calls of the P2CH deriver: axial lines along x or y or of no length,
\* drawn on two slices of volumes of even and odd depth, and the line of
\* the end-to-end example
EngineShapes == {EngineShape, << 7, 15, 12 >>}
EngineAxialLines ==
    {ab \in EngineAxialPoints \X EngineAxialPoints :
        AlongRowOrColumn(ab[1], ab[2])}
ExampleP2CHInput ==
    [op |-> "create_p2ch_plane_from_axial_line",
     line |-> << << Vox(50), Vox(120) >>, << Vox(180), Vox(120) >> >>,
     axial_slice_z |-> Vox(50),
     volume_shape |-> << 100, 256, 256 >>]
P2CHInputs ==
    [op : {"create_p2ch_plane_from_axial_line"},
     line : EngineAxialLines, axial_slice_z : {Vox(0), Vox(3)},
     volume_shape : EngineShapes]
    \cup {ExampleP2CHInput}
\* the second step of the end-to-end example: the line valve = (190, 10),
\* apex = (190, 90) on the P2CH view of the example
ExampleP4CHInput ==
    [op |-> "create_p4ch_plane_from_p2ch_line",
     p2ch_plane |-> create_p2ch_plane_from_axial_line(
                        Vox(50), Vox(120), Vox(180), Vox(120), Vox(50),
                        << 100, 256, 256 >>),
     line |-> << << Vox(190), Vox(10) >>, << Vox(190), Vox(90) >> >>,
     rotation_degrees |-> 0, rotation_mode |-> "long_axis"]
\* depths at which the same axial line may have been drawn
EngineDepths == {Vox(0), Vox(3), Vox(50)}
P2CHResult(in) ==
    create_p2ch_plane_from_axial_line(
        in.line[1][1], in.line[1][2], in.line[2][1], in.line[2][2],
        in.axial_slice_z, in.volume_shape)

\* calls of the SAX deriver: P4CH planes derived at 0 and 90 degrees, and
\* lines on the p4ch view along a pixel row or column or of no length
EngineP4CHPlanes ==
    {P4CHResultAt(in, in.rotation_degrees).plane :
        in \in {i \in P4CHInputs : i.rotation_degrees \in {0, 90}}}
EngineP4CHPoints == {<< Vox(x), Vox(y) >> : x \in {9, 15}, y \in {4, 6}}
EngineP4CHLines ==
    {ab \in EngineP4CHPoints \X EngineP4CHPoints :
        AlongRowOrColumn(ab[1], ab[2])}
\* the shape the P4CH planes were derived for, and one whose larger side,
\* 14, times 1.2 is not a whole number
EngineSAXShapes == {EngineShape, << 7, 14, 12 >>}
SAXInputs ==
    [op : {"create_sax_plane_from_p4ch_line"},
     p4ch_plane : EngineP4CHPlanes, line : EngineP4CHLines,
     volume_shape : EngineSAXShapes]
SAXResult(in) ==
    create_sax_plane_from_p4ch_line(
        in.line[1][1], in.line[1][2], in.line[2][1], in.line[2][2],
        in.p4ch_plane, in.volume_shape)

\* calls of the methods of a plane: planes with orthonormal axes along the
\* volume axes, of even and odd size, at whole and half voxels; a plane
\* whose normal is not a unit vector; and the planes of the P2CH deriver,
\* those of a zero-length line among them
EngineOrigins == {<< Vox(5), Vox(6), Vox(3) >>, << 9, 11, 5 >>}
EngineFrames ==
    {<< << 1, 0, 0 >>, << 0, 1, 0 >> >>, << << 1, 0, 0 >>, << 0, 0, -1 >> >>,
     << << 0, 1, 0 >>, << 0, 0, 1 >> >>, << << 0, -1, 0 >>, << 1, 0, 0 >> >>}
EngineDims == {<< 6, 4 >>, << 5, 3 >>}
EngineOrthoPlanes ==
    {ObliquePlane(o, f[1], f[2], Cross(f[1], f[2]), d[1], d[2]) :
        o \in EngineOrigins, f \in EngineFrames, d \in EngineDims}
EngineSkewPlane ==
    ObliquePlane(<< Vox(5), Vox(6), Vox(3) >>, << 1, 0, 0 >>, << 1, 1, 0 >>,
                 << 0, 0, 2 >>, 5, 4)
EnginePlanes == EngineOrthoPlanes \cup {EngineSkewPlane} \cup EngineP2CHPlanes
\* pixels of a plane, in half pixels: its centre (width/2, height/2), its
\* corner, a whole pixel and a half pixel
EnginePixels(plane) ==
    {<< HalfVox(plane.width), HalfVox(plane.height) >>, << 0, 0 >>,
     << Vox(2), Vox(1) >>, << 3, 5 >>}
\* offsets along the normal, in half voxels
EngineOffsets == {-3, 0, 4}
Map2dTo3dInputs ==
    UNION {{[op |-> "map_2d_to_3d", plane |-> plane, x2d |-> px[1],
             y2d |-> px[2], offset |-> offset] :
                px \in EnginePixels(plane), offset \in EngineOffsets} :
           plane \in EnginePlanes}
\* points at 0, 4.5, 5 and 5.5 voxels along the normal from a pixel of the
\* plane, and the tolerances 5.0 (the default) and 0
EngineDistances == {0, 9, 10, 11, -10, -11}
EngineTolerances == {DefaultTolerance, 0}
Map3dTo2dInputs ==
    {[op |-> "map_3d_to_2d", plane |-> plane,
      point |-> map_2d_to_3d(plane, px[1], px[2], d),
      tolerance |-> tolerance] :
        plane \in EnginePlanes, px \in {<< Vox(2), Vox(1) >>, << 3, 5 >>},
        d \in EngineDistances, tolerance \in EngineTolerances}
WithOffsetInputs ==
    [op : {"with_offset"}, plane : EnginePlanes, offset : EngineOffsets]

\* calls of the extractor: two volumes whose voxels all differ and are not
\* 0, of shapes (3, 3, 2) and (2, 2, 3)
VolumeOfShape(n) ==
    [z \in 0..(n[1] - 1) |-> [y \in 0..(n[2] - 1) |-> [x \in 0..(n[3] - 1) |->
        8 * (1 + x + n[3] * y + n[3] * n[2] * z)]]]
EngineVolumes == {VolumeOfShape(<< 3, 3, 2 >>), VolumeOfShape(<< 2, 2, 3 >>)}
\* the plane that coincides with axial index k of a volume of shape n
AxialPlane(n, k) ==
    ObliquePlane(<< HalfVox(n[3]), HalfVox(n[2]), Vox(k) >>, << 1, 0, 0 >>,
                 << 0, 1, 0 >>, << 0, 0, 1 >>, n[3], n[2])
\* the axial planes inside the volume and one wholly past it; an axial
\* plane larger than the volume and off its centre; and the P2CH planes of
\* a line along x, a line along y and a zero-length line, which are wider
\* than the volume
ExtractPlanes(volume) ==
    LET n == ShapeOf(volume)
    IN  {AxialPlane(n, k) : k \in 0..(n[1] + 2)}
          \cup {ObliquePlane(<< Vox(n[3]), 1, Vox(1) >>, << 1, 0, 0 >>,
                             << 0, 1, 0 >>, << 0, 0, 1 >>,
                             n[3] + 1, n[2] + 2)}
          \cup {create_p2ch_plane_from_axial_line(Vox(0), Vox(1), Vox(1),
                                                  Vox(1), Vox(0), n),
                create_p2ch_plane_from_axial_line(Vox(1), Vox(0), Vox(1),
                                                  Vox(1), Vox(0), n),
                create_p2ch_plane_from_axial_line(Vox(1), Vox(1), Vox(1),
                                                  Vox(1), Vox(0), n)}
\* scroll offsets: a voxel back, none, half a voxel, a voxel, four voxels
ExtractOffsets == {-2, 0, 1, 2, 8}
ExtractInputs ==
    UNION {[op : {"extract_oblique_slice"}, volume : {volume},
            plane : ExtractPlanes(volume), offset : ExtractOffsets] :
           volume \in EngineVolumes}

\* the window's variables, which a call of the engine does not touch
window_vars ==
    << current_patient, annotations, cardiac_line_segments, oblique_planes,
       bottom_views, rotation_slider, rotation_mode_combo,
       lineseg_first_point, lineseg_source_view, main_window,
       persistence >>

EngineInit ==
    /\ WindowInit
    /\ persistence = PersistenceIdle
    /\ \/ engine_input \in {Some(in) : in \in P2CHInputs}
       \/ engine_input \in {Some(in) : in \in P4CHInputs}
       \/ engine_input = Some(ExampleP4CHInput)
       \/ engine_input \in {Some(in) : in \in SAXInputs}
       \/ engine_input \in {Some(in) : in \in Map2dTo3dInputs}
       \/ engine_input \in {Some(in) : in \in Map3dTo2dInputs}
       \/ engine_input \in {Some(in) : in \in WithOffsetInputs}
       \/ engine_input \in {Some(in) : in \in ExtractInputs}
    /\ engine_output = None

\* the call held in engine_input is a call of op, not yet made
Calling(op) ==
    /\ Present(engine_input)
    /\ Get(engine_input).op = op
    /\ Absent(engine_output)
\* the call held in engine_input is a call of op and has returned
Called(op) ==
    /\ Present(engine_input)
    /\ Get(engine_input).op = op
    /\ Present(engine_output)

\* the arguments as the call leaves them.  No statement of the engine
\* assigns to a field of a plane or to an element of an array it was given:
\* with_offset adds into a new array and copies the axes, the mappings and
\* the extractor compute origin + ... into new arrays, the derivers build
\* their vectors from np.array, np.cross and arithmetic results, and
\* map_coordinates reads the volume.  The engine keeps no state of its own.
arguments_after_offset_in_place(in) ==
    IF in.op = "with_offset"
    THEN [in EXCEPT !.plane.origin =
                        VAdd(in.plane.origin,
                             VScale(in.offset, in.plane.normal))]
    ELSE in
arguments_after_call(in) == in

\* the value a call returns, by the function called
EngineResult(in) ==
    CASE in.op = "create_p2ch_plane_from_axial_line" -> P2CHResult(in)
      [] in.op = "create_p4ch_plane_from_p2ch_line" ->
             P4CHResultAt(in, in.rotation_degrees)
      [] in.op = "create_sax_plane_from_p4ch_line" -> SAXResult(in)
      [] in.op = "map_2d_to_3d" ->
             map_2d_to_3d(in.plane, in.x2d, in.y2d, in.offset)
      [] in.op = "map_3d_to_2d" ->
             map_3d_to_2d(in.plane, in.point, in.tolerance)
      [] in.op = "with_offset" -> with_offset(in.plane, in.offset)
      [] in.op = "extract_oblique_slice" ->
             extract_oblique_slice(in.volume, in.plane, in.offset)

CallP2CHDeriver ==
    /\ Calling("create_p2ch_plane_from_axial_line")
    /\ engine_output' = Some(P2CHResult(Get(engine_input)))
    /\ engine_input' = Some(arguments_after_call(Get(engine_input)))
    /\ UNCHANGED window_vars

CallP4CHDeriver ==
    /\ Calling("create_p4ch_plane_from_p2ch_line")
    /\ engine_output' =
           Some(P4CHResultAt(Get(engine_input),
                             Get(engine_input).rotation_degrees))
    /\ engine_input' = Some(arguments_after_call(Get(engine_input)))
    /\ UNCHANGED window_vars

CallSAXDeriver ==
    /\ Calling("create_sax_plane_from_p4ch_line")
    /\ engine_output' = Some(SAXResult(Get(engine_input)))
    /\ engine_input' = Some(arguments_after_call(Get(engine_input)))
    /\ UNCHANGED window_vars

CallMap2dTo3d ==
    /\ Calling("map_2d_to_3d")
    /\ engine_output' =
           Some(map_2d_to_3d(Get(engine_input).plane, Get(engine_input).x2d,
                             Get(engine_input).y2d, Get(engine_input).offset))
    /\ engine_input' = Some(arguments_after_call(Get(engine_input)))
    /\ UNCHANGED window_vars

\* the result is None or Some(<<x2d, y2d>>); engine_output holds it as it
\* is, so that it is set after the call either way
CallMap3dTo2d ==
    /\ Calling("map_3d_to_2d")
    /\ engine_output' =
           Some(map_3d_to_2d(Get(engine_input).plane, Get(engine_input).point,
                             Get(engine_input).tolerance))
    /\ engine_input' = Some(arguments_after_call(Get(engine_input)))
    /\ UNCHANGED window_vars

CallWithOffset ==
    /\ Calling("with_offset")
    /\ engine_output' =
           Some(with_offset(Get(engine_input).plane,
                            Get(engine_input).offset))
    /\ engine_input' = Some(arguments_after_call(Get(engine_input)))
    /\ UNCHANGED window_vars

CallExtract ==
    /\ Calling("extract_oblique_slice")
    /\ engine_output' =
           Some(extract_oblique_slice(Get(engine_input).volume,
                                      Get(engine_input).plane,
                                      Get(engine_input).offset))
    /\ engine_input' = Some(arguments_after_call(Get(engine_input)))
    /\ UNCHANGED window_vars

\* a second call of the same function with the arguments as the first call
\* left them
CallAgain ==
    /\ Present(engine_input)
    /\ Present(engine_output)
    /\ engine_output' = Some(EngineResult(Get(engine_input)))
    /\ engine_input' = Some(arguments_after_call(Get(engine_input)))
    /\ UNCHANGED window_vars

EngineNext ==
    \/ CallP2CHDeriver
    \/ CallP4CHDeriver
    \/ CallSAXDeriver
    \/ CallMap2dTo3d
    \/ CallMap3dTo2d
    \/ CallWithOffset
    \/ CallExtract
    \/ CallAgain
EngineSpec == EngineInit /\ [][EngineNext]_vars

(***************************************************************************)
(* Vocabulary of the properties                                            *)
(***************************************************************************)
\* a left release on the axial view that ends a drag begun on that view
AxialLineCompleted ==
    /\ current_patient # 0
    /\ Present(lineseg_first_point)
    /\ lineseg_source_view = Some("axial")
    /\ Absent(lineseg_source_view')
    /\ \E i \in ClicksOn("axial") :
           Becomes(on_top_view_mouse_released(
               Window, "axial",
               CurrentSlice("axial", VolumeShape(current_patient)),
               ScenePos("axial", i)))

\* a left release on an oblique view that ends a drag begun on that view,
\* the view showing a plane
ObliqueLineCompleted(view_name) ==
    /\ Present(lineseg_first_point)
    /\ lineseg_source_view = Some(view_name)
    /\ Present(bottom_views[view_name].plane)
    /\ Absent(lineseg_source_view')
    /\ \E i \in ClicksOn(view_name) :
           Becomes(on_oblique_view_mouse_released(
               Window, view_name, ScenePos(view_name, i)))

\* a right press that removes the line drawn on a view
AxialLineRemoved ==
    /\ Present(cardiac_line_segments.axial)
    /\ Absent(cardiac_line_segments'.axial)
    /\ Becomes(on_top_view_right_pressed(Window, "axial"))
ObliqueLineRemoved(view_name) ==
    /\ Present(cardiac_line_segments[view_name])
    /\ Absent(cardiac_line_segments'[view_name])
    /\ Becomes(on_oblique_view_right_pressed(Window, view_name))

\* the p4ch plane _generate_p4ch_view derives now from the stored p2ch
\* line, the p2ch plane and the slider and combo box; None if it derives
\* none
P4CHFromCurrent ==
    generate_p4ch_view([Window EXCEPT !.planes.p4ch = None],
                       None, None).planes.p4ch
\* the sax plane _generate_sax_view derives now from the stored p4ch line
\* and the p4ch plane; None if it derives none
SAXFromCurrent ==
    generate_sax_view([Window EXCEPT !.planes.sax = None]).planes.sax

\* the stages of the pipeline, by the planes the window holds
StageEmpty ==
    /\ Absent(oblique_planes.p2ch)
    /\ Absent(oblique_planes.p4ch)
    /\ Absent(oblique_planes.sax)
StageP2CHReady ==
    /\ Present(oblique_planes.p2ch)
    /\ Absent(oblique_planes.p4ch)
    /\ Absent(oblique_planes.sax)
StageP4CHReady ==
    /\ Present(oblique_planes.p2ch)
    /\ Present(oblique_planes.p4ch)
    /\ Absent(oblique_planes.sax)
StageSAXReady ==
    /\ Present(oblique_planes.p2ch)
    /\ Present(oblique_planes.p4ch)
    /\ Present(oblique_planes.sax)

(***************************************************************************)
(* C1.  An existing SAX plane is the one derived from the current P4CH     *)
(* plane and P4CH line, and an existing P4CH plane is the one derived from *)
(* the current P2CH plane, P2CH line, rotation angle and mode: no plane    *)
(* computed from superseded upstream state stays present.                  *)
(***************************************************************************)
C1_P4CHIsCurrent ==
    Present(oblique_planes.p4ch) => oblique_planes.p4ch = P4CHFromCurrent
C1_SAXIsCurrent ==
    Present(oblique_planes.sax) => oblique_planes.sax = SAXFromCurrent
C1_NoStalePlane == C1_P4CHIsCurrent /\ C1_SAXIsCurrent

(***************************************************************************)
(* C2.  Completing a new line on the P2CH view while a P4CH line and a SAX *)
(* plane exist leaves the P4CH line and the SAX plane absent; the only     *)
(* downstream state present is the P4CH plane regenerated from the new     *)
(* line.                                                                   *)
(***************************************************************************)
C2_RedrawP2CHClearsLaterStages ==
    [][ ( /\ ObliqueLineCompleted("p2ch")
          /\ Present(cardiac_line_segments.p4ch)
          /\ Present(oblique_planes.sax) )
        => ( /\ Absent(cardiac_line_segments'.p4ch)
             /\ Absent(oblique_planes'.sax)
             /\ Absent(bottom_views'.sax.plane)
             /\ Present(oblique_planes'.p4ch) )
      ]_vars

(***************************************************************************)
(* C3.  With a SAX plane present, completing a new axial line leaves the   *)
(* new P2CH plane as the only plane (the clearing runs before the          *)
(* regeneration, so the regenerated plane survives it) and leaves no P2CH  *)
(* or P4CH line.                                                           *)
(***************************************************************************)
C3_RedrawAxialClearsAll ==
    [][ ( AxialLineCompleted /\ Present(oblique_planes.sax) )
        => ( /\ oblique_planes'.p2ch =
                    Some(create_p2ch_plane_from_axial_line(
                        Get(cardiac_line_segments'.axial).x1,
                        Get(cardiac_line_segments'.axial).y1,
                        Get(cardiac_line_segments'.axial).x2,
                        Get(cardiac_line_segments'.axial).y2,
                        Get(cardiac_line_segments'.axial).z1,
                        VolumeShape(current_patient)))
             /\ bottom_views'.p2ch.plane = oblique_planes'.p2ch
             /\ Absent(oblique_planes'.p4ch)
             /\ Absent(oblique_planes'.sax)
             /\ Absent(bottom_views'.p4ch.plane)
             /\ Absent(bottom_views'.sax.plane)
             /\ Absent(cardiac_line_segments'.p2ch)
             /\ Absent(cardiac_line_segments'.p4ch)
             /\ \A v \in BottomViews : Absent(bottom_views'[v].line_segment) )
      ]_vars
\* a drag on the axial view is under way while the whole pipeline is
\* populated: the release that follows redraws the axial line
C3_Witness ==
    /\ StageSAXReady
    /\ Present(cardiac_line_segments.p2ch)
    /\ Present(cardiac_line_segments.p4ch)
    /\ lineseg_source_view = Some("axial")

(***************************************************************************)
(* C4.  Removing the line drawn on a view leaves no line and no plane of   *)
(* any later stage.                                                        *)
(***************************************************************************)
C4_RemoveLineClearsLaterStages ==
    [][ /\ AxialLineRemoved
           => ( /\ oblique_planes' = NoPlanes
                /\ cardiac_line_segments' = NoLines
                /\ \A v \in BottomViews :
                       /\ Absent(bottom_views'[v].plane)
                       /\ Absent(bottom_views'[v].line_segment) )
        /\ ObliqueLineRemoved("p2ch")
           => ( /\ Absent(cardiac_line_segments'.p2ch)
                /\ Absent(cardiac_line_segments'.p4ch)
                /\ Absent(oblique_planes'.p4ch)
                /\ Absent(oblique_planes'.sax)
                /\ Absent(bottom_views'.p2ch.line_segment)
                /\ \A v \in {"p4ch", "sax"} :
                       /\ Absent(bottom_views'[v].plane)
                       /\ Absent(bottom_views'[v].line_segment) )
        /\ ObliqueLineRemoved("p4ch")
           => ( /\ Absent(cardiac_line_segments'.p4ch)
                /\ Absent(oblique_planes'.sax)
                /\ Absent(bottom_views'.p4ch.line_segment)
                /\ Absent(bottom_views'.sax.plane) )
      ]_vars
\* the whole pipeline is populated, so each removal has later stages to
\* clear
C4_Witness ==
    /\ StageSAXReady
    /\ \A k \in {"axial", "p2ch", "p4ch"} : Present(cardiac_line_segments[k])
    /\ Absent(lineseg_first_point)

(***************************************************************************)
(* C5.  Whenever the P4CH stage is invalidated, the rotation angle returns *)
(* to 0 degrees and the mode to LONG_AXIS.                                 *)
(***************************************************************************)
C5_InvalidationResetsRotation ==
    [][ ( Present(oblique_planes.p4ch) /\ Absent(oblique_planes'.p4ch) )
        => ( rotation_slider' = 0 /\ rotation_mode_combo' = "long_axis" )
      ]_vars

(***************************************************************************)
(* C6.  A later stage is populated only if all earlier stages are: the SAX *)
(* plane only with the P4CH plane and line, the P4CH plane only with the   *)
(* P2CH plane and line, the P2CH plane only with the axial line.           *)
(***************************************************************************)
C6_LaterStageNeedsEarlier ==
    /\ Present(oblique_planes.sax)
       => Present(oblique_planes.p4ch) /\ Present(cardiac_line_segments.p4ch)
    /\ Present(oblique_planes.p4ch)
       => Present(oblique_planes.p2ch) /\ Present(cardiac_line_segments.p2ch)
    /\ Present(oblique_planes.p2ch)
       => Present(cardiac_line_segments.axial)
    /\ Present(bottom_views.sax.plane)
       => Present(bottom_views.p4ch.plane)
    /\ Present(bottom_views.p4ch.plane)
       => Present(bottom_views.p2ch.plane)
C6_Witness ==
    /\ StageSAXReady
    /\ Present(bottom_views.sax.plane)

(***************************************************************************)
(* C7.  With a patient loaded the pipeline advances exactly one stage per  *)
(* completed line: a non-degenerate axial line yields P2CH_READY, a line   *)
(* on the P2CH view in P2CH_READY yields P4CH_READY, a line on the P4CH    *)
(* view in P4CH_READY yields SAX_READY, and no event populates more than   *)
(* one new stage.                                                          *)
(***************************************************************************)
NonDegenerate(ls) == End1(ls) # End2(ls)
\* the planes absent before the step and present after it
NewlyPopulated ==
    {v \in BottomViews : Absent(oblique_planes[v]) /\ Present(oblique_planes'[v])}
C7_AxialLineYieldsP2CH ==
    ( /\ AxialLineCompleted
      /\ NonDegenerate(Get(cardiac_line_segments'.axial)) )
    => StageP2CHReady'
C7_P2CHLineYieldsP4CH ==
    ( /\ StageP2CHReady
      /\ ObliqueLineCompleted("p2ch")
      /\ NonDegenerate(Get(cardiac_line_segments'.p2ch)) )
    => StageP4CHReady'
C7_P4CHLineYieldsSAX ==
    ( /\ StageP4CHReady
      /\ ObliqueLineCompleted("p4ch")
      /\ NonDegenerate(Get(cardiac_line_segments'.p4ch)) )
    => StageSAXReady'
C7_OneNewStagePerEvent == Cardinality(NewlyPopulated) <= 1
C7_OneStagePerLine ==
    [][ /\ C7_AxialLineYieldsP2CH
        /\ C7_P2CHLineYieldsP4CH
        /\ C7_P4CHLineYieldsSAX
        /\ C7_OneNewStagePerEvent ]_vars

(***************************************************************************)
(* C8.  Handling a rotation-angle change while a P4CH plane is shown does  *)
(* not project the P2CH line endpoints again, does not lift them to 3D     *)
(* again and does not recompute long_axis or base_normal.                  *)
(***************************************************************************)
StepsOneToThree ==
    {"project_line_endpoints", "lift_endpoints", "long_axis", "base_normal"}
C8_RotationUsesCacheOnly ==
    [][ \A d \in Angles :
          ( /\ d # rotation_slider
            /\ rotation_slider' = d
            /\ Present(oblique_planes.p4ch)
            /\ Becomes(on_p4ch_rotation_changed(Window, d)) )
          => LET steps == on_p4ch_rotation_changed(Window, d).steps
             IN  \A k \in 1..Len(steps) : steps[k] \notin StepsOneToThree
      ]_vars

(***************************************************************************)
(* C10.  The window never stores a zero-length line and never derives a    *)
(* plane from one: every stored line has two different endpoints.          *)
(***************************************************************************)
C10_NoZeroLengthLine ==
    \A k \in {"axial", "p2ch", "p4ch"} :
        Present(cardiac_line_segments[k])
        => NonDegenerate(Get(cardiac_line_segments[k]))

(***************************************************************************)
(* C9.  For a fixed P2CH line, P2CH plane and rotation mode, the           *)
(* rotation_axis, base_normal and base_u_axis of the extended P4CH result  *)
(* and the origin and v_axis of its plane are the same at every angle, and *)
(* the plane at angle t is the one rebuilt from them alone:                *)
(* normal = normalize(base_normal cos t + (rotation_axis x base_normal)    *)
(* sin t), v_axis = -rotation_axis, u_axis = normalize(v_axis x normal).   *)
(***************************************************************************)
\* steps 4-8 of the derivation, from the cached vectors of result cached
PlaneFromCache(cached, t) ==
    LET normal ==
            normalize(VAdd(VScale(CosDeg(t), cached.base_normal),
                           VScale(SinDeg(t),
                                  Cross(cached.rotation_axis,
                                        cached.base_normal))))
        v_axis == VNeg(cached.rotation_axis)
        u_axis == normalize(Cross(v_axis, normal))
    IN  ObliquePlane(cached.plane.origin, u_axis, v_axis, normal,
                     cached.plane.width, cached.plane.height)
C9_CacheDeterminesPlane ==
    Called("create_p4ch_plane_from_p2ch_line")
    => LET in == Get(engine_input)
           result == Get(engine_output)
       IN  /\ result.plane = PlaneFromCache(result, in.rotation_degrees)
           /\ \A t \in EngineAngles :
                  LET other == P4CHResultAt(in, t)
                  IN  /\ other.rotation_axis = result.rotation_axis
                      /\ other.base_normal = result.base_normal
                      /\ other.base_u_axis = result.base_u_axis
                      /\ other.plane.origin = result.plane.origin
                      /\ other.plane.v_axis = result.plane.v_axis
                      /\ other.plane = PlaneFromCache(result, t)
\* the deriver has run at a quarter turn on a line with two different
\* endpoints drawn on a plane derived from an axial line with two
\* different endpoints, in the perpendicular mode
C9_Witness ==
    /\ Called("create_p4ch_plane_from_p2ch_line")
    /\ Get(engine_input).rotation_degrees = 90
    /\ Get(engine_input).rotation_mode = "perp_p2ch"
    /\ Get(engine_output).rotation_axis # Zero3
    /\ Get(engine_output).base_normal # Zero3
    /\ Get(engine_output).plane.normal # Get(engine_output).base_normal

(***************************************************************************)
(* C11.  The engine returns a degenerate plane, not an error, on a         *)
(* zero-length line: normalize leaves the zero vector unchanged; the P2CH  *)
(* deriver returns u_axis = normal = (0,0,0) with v_axis, origin and       *)
(* dimensions as usual; the P4CH and SAX derivers return a plane whose     *)
(* axes along and across the line are (0,0,0), placed at the lifted point. *)
(***************************************************************************)
ZeroLength(line) == line[1] = line[2]
C11_ZeroLengthLineGivesDegeneratePlane ==
    /\ normalize(Zero3) = Zero3
    /\ Called("create_p2ch_plane_from_axial_line")
       /\ ZeroLength(Get(engine_input).line)
       => LET in == Get(engine_input)
              shape == in.volume_shape
          IN  Get(engine_output) =
                  ObliquePlane(<< in.line[1][1], in.line[1][2],
                                  HalfVox(shape[1]) >>,
                               Zero3, << 0, 0, -1 >>, Zero3,
                               (Max(shape[2], shape[3]) * 3) \div 2,
                               shape[1])
    /\ Called("create_p4ch_plane_from_p2ch_line")
       /\ ZeroLength(Get(engine_input).line)
       => LET in == Get(engine_input)
              plane == Get(engine_output).plane
          IN  /\ plane.u_axis = Zero3
              /\ plane.v_axis = Zero3
              /\ plane.origin = map_2d_to_3d(in.p2ch_plane, in.line[1][1],
                                             in.line[1][2], 0)
              /\ plane.width = (Max(EngineShape[2], EngineShape[3]) * 3) \div 2
              /\ plane.height = EngineShape[1]
              /\ Get(engine_output).rotation_axis = Zero3
    /\ Called("create_sax_plane_from_p4ch_line")
       /\ ZeroLength(Get(engine_input).line)
       => LET in == Get(engine_input)
              plane == Get(engine_output)
          IN  /\ plane.normal = Zero3
              /\ plane.v_axis = Zero3
              /\ plane.u_axis =
                     normalize(IF in.p4ch_plane.u_axis = Zero3
                               THEN in.p4ch_plane.v_axis
                               ELSE in.p4ch_plane.u_axis)
              /\ plane.origin = map_2d_to_3d(in.p4ch_plane, in.line[1][1],
                                             in.line[1][2], 0)
              /\ plane.width =
                     (Max(in.volume_shape[2], in.volume_shape[3]) * 6) \div 5
              /\ plane.height = plane.width
\* the P2CH deriver has returned from a call with a zero-length line
C11_Witness ==
    /\ Called("create_p2ch_plane_from_axial_line")
    /\ ZeroLength(Get(engine_input).line)
    /\ Get(engine_output).u_axis = Zero3
    /\ Get(engine_output).v_axis # Zero3

(***************************************************************************)
(* C12.  For any plane and any offset, the pixel (width/2, height/2) maps  *)
(* to origin + offset * normal, for even and odd width and height alike.   *)
(***************************************************************************)
AtCentre(in) ==
    /\ in.x2d = HalfVox(in.plane.width)
    /\ in.y2d = HalfVox(in.plane.height)
C12_CentrePixelMapsToOrigin ==
    ( Called("map_2d_to_3d") /\ AtCentre(Get(engine_input)) )
    => LET in == Get(engine_input)
       IN  Get(engine_output) =
               VAdd(in.plane.origin, VScale(in.offset, in.plane.normal))
\* the centre of a plane of odd width and height has been mapped at an
\* offset
C12_Witness ==
    /\ Called("map_2d_to_3d")
    /\ AtCentre(Get(engine_input))
    /\ Get(engine_input).plane.width % 2 = 1
    /\ Get(engine_input).plane.height % 2 = 1
    /\ Get(engine_input).offset # 0
    /\ Get(engine_input).plane.normal # Zero3
    /\ Get(engine_output) # Get(engine_input).plane.origin

(***************************************************************************)
(* C13.  Round trip: on a plane with orthonormal u_axis, v_axis and normal *)
(* the 3D point of a 2D point (u, v) at offset 0 maps back to (u, v), and  *)
(* the result is present.                                                  *)
(***************************************************************************)
Orthonormal(plane) ==
    /\ Dot(plane.u_axis, plane.u_axis) = 1
    /\ Dot(plane.v_axis, plane.v_axis) = 1
    /\ Dot(plane.normal, plane.normal) = 1
    /\ Dot(plane.u_axis, plane.v_axis) = 0
    /\ Dot(plane.u_axis, plane.normal) = 0
    /\ Dot(plane.v_axis, plane.normal) = 0
C13_RoundTrip ==
    ( /\ Called("map_2d_to_3d")
      /\ Get(engine_input).offset = 0
      /\ Orthonormal(Get(engine_input).plane) )
    => LET in == Get(engine_input)
       IN  map_3d_to_2d(in.plane, Get(engine_output), DefaultTolerance)
               = Some(<< in.x2d, in.y2d >>)
\* a pixel that is not the centre has been mapped to 3D on an orthonormal
\* plane of odd size
C13_Witness ==
    /\ Called("map_2d_to_3d")
    /\ Get(engine_input).offset = 0
    /\ Orthonormal(Get(engine_input).plane)
    /\ Get(engine_input).plane.width % 2 = 1
    /\ ~AtCentre(Get(engine_input))
    /\ Get(engine_input).x2d # Get(engine_input).y2d

(***************************************************************************)
(* C14.  with_offset changes only the origin, to origin + d * normal, is   *)
(* the identity at d = 0, and composes additively: offsetting the result   *)
(* by d2 equals offsetting the plane by d + d2.                            *)
(***************************************************************************)
C14_WithOffsetComposes ==
    Called("with_offset")
    => LET in == Get(engine_input)
           result == Get(engine_output)
       IN  /\ result.origin =
                  VAdd(in.plane.origin, VScale(in.offset, in.plane.normal))
           /\ result.u_axis = in.plane.u_axis
           /\ result.v_axis = in.plane.v_axis
           /\ result.normal = in.plane.normal
           /\ result.width = in.plane.width
           /\ result.height = in.plane.height
           /\ in.offset = 0 => result = in.plane
           /\ \A d2 \in EngineOffsets :
                  with_offset(result, d2)
                      = with_offset(in.plane, in.offset + d2)
\* a plane has been moved along a normal that is not zero
C14_Witness ==
    /\ Called("with_offset")
    /\ Get(engine_input).offset # 0
    /\ Get(engine_input).plane.normal # Zero3
    /\ Get(engine_output).origin # Get(engine_input).plane.origin

(***************************************************************************)
(* C15.  map_3d_to_2d returns absent exactly when |(point - origin) .      *)
(* normal| is strictly greater than the tolerance; otherwise it returns    *)
(* ((point - origin) . u_axis + width/2, (point - origin) . v_axis +       *)
(* height/2).                                                              *)
(***************************************************************************)
PlaneDistance(plane, point) ==
    Abs(Dot(VSub(point, plane.origin), plane.normal))
C15_AbsentBeyondTolerance ==
    Called("map_3d_to_2d")
    => LET in == Get(engine_input)
           result == Get(engine_output)
           diff == VSub(in.point, in.plane.origin)
       IN  /\ Absent(result)
                  <=> PlaneDistance(in.plane, in.point) > Vox(in.tolerance)
           /\ Present(result)
                  => Get(result) =
                         << Dot(diff, in.plane.u_axis)
                                + HalfVox(in.plane.width),
                            Dot(diff, in.plane.v_axis)
                                + HalfVox(in.plane.height) >>
\* a point exactly 5.0 voxels off the plane has been projected with the
\* default tolerance, and is present
C15_Witness ==
    /\ Called("map_3d_to_2d")
    /\ Get(engine_input).tolerance = DefaultTolerance
    /\ PlaneDistance(Get(engine_input).plane, Get(engine_input).point)
           = Vox(DefaultTolerance)
    /\ Present(Get(engine_output))

(***************************************************************************)
(* C19.  For a non-degenerate axial line (x1,y1)-(x2,y2) drawn at depth z0 *)
(* in a volume of shape (Z,Y,X) the P2CH deriver returns u_axis = the unit *)
(* vector along (x2-x1, y2-y1, 0), normal = (-u_axis.y, u_axis.x, 0),      *)
(* v_axis = (0,0,-1), origin = ((x1+x2)/2, (y1+y2)/2, Z/2), height = Z,    *)
(* and the same plane at every z0.  Shape (100,256,256), line              *)
(* (50,120)-(180,120) at z = 50 gives u_axis (1,0,0), origin (115,120,50), *)
(* width 384, height 100.                                                  *)
(***************************************************************************)
LineDirection(line) ==
    << line[2][1] - line[1][1], line[2][2] - line[1][2], 0 >>
C16_AxialPlaneReproducesSlice ==
    ( Called("extract_oblique_slice") /\ Get(engine_input).offset = 0 )
    => LET in == Get(engine_input)
           n == ShapeOf(in.volume)
       IN  \A k \in 0..(n[1] - 1) :
               in.plane = AxialPlane(n, k)
                   => Get(engine_output) = in.volume[k]
\* the last axial slice of the volume of odd width has been extracted
C16_Witness ==
    /\ Called("extract_oblique_slice")
    /\ Get(engine_input).offset = 0
    /\ ShapeOf(Get(engine_input).volume) = << 2, 2, 3 >>
    /\ Get(engine_input).plane = AxialPlane(<< 2, 2, 3 >>, 1)
    /\ Get(engine_output)[1][2] = Get(engine_input).volume[1][1][2]

(***************************************************************************)
(* C17.  The extractor returns an array of shape height x width, and every *)
(* pixel whose 3D sample coordinate is outside the volume bounds is 0,     *)
(* also for a plane partly or wholly past the edge of the volume.          *)
(***************************************************************************)
\* the sample coordinate of a pixel, through the plane's own mapping
SampleOutside(in, row, col) ==
    LET p == map_2d_to_3d(in.plane, Vox(col), Vox(row), in.offset)
    IN  outside_volume(in.volume, << p[3], p[2], p[1] >>)
C17_OutsideSamplesAreZero ==
    Called("extract_oblique_slice")
    => LET in == Get(engine_input)
           result == Get(engine_output)
       IN  /\ DOMAIN result = 0..(in.plane.height - 1)
           /\ \A row \in DOMAIN result :
                  /\ DOMAIN result[row] = 0..(in.plane.width - 1)
                  /\ \A col \in DOMAIN result[row] :
                         SampleOutside(in, row, col) => result[row][col] = 0
\* a slice has been extracted that is partly inside the volume and partly
\* past its edge
C17_Witness ==
    /\ Called("extract_oblique_slice")
    /\ \E row \in 0..(Get(engine_input).plane.height - 1) :
           \E c1, c2 \in 0..(Get(engine_input).plane.width - 1) :
               /\ SampleOutside(Get(engine_input), row, c1)
               /\ Get(engine_output)[row][c1] = 0
               /\ ~SampleOutside(Get(engine_input), row, c2)
               /\ Get(engine_output)[row][c2] # 0

IsRounded(n, num, den) == 2 * Abs(den * n - num) <= den
MaxXY(volume_shape) == Max(volume_shape[3], volume_shape[2])
C21_P2CHDimensions ==
    Called("create_p2ch_plane_from_axial_line")
    => /\ IsRounded(Get(engine_output).width,
                    3 * MaxXY(Get(engine_input).volume_shape), 2)
       /\ Get(engine_output).height = Get(engine_input).volume_shape[1]
C21_P4CHDimensions ==
    Called("create_p4ch_plane_from_p2ch_line")
    => /\ IsRounded(Get(engine_output).plane.width, 3 * MaxXY(EngineShape), 2)
       /\ Get(engine_output).plane.height = EngineShape[1]
C21_SAXDimensions ==
    Called("create_sax_plane_from_p4ch_line")
    => /\ IsRounded(Get(engine_output).width,
                    6 * MaxXY(Get(engine_input).volume_shape), 5)
       /\ Get(engine_output).height = Get(engine_output).width
C21_DimensionsAreRounded ==
    /\ C21_P2CHDimensions
    /\ C21_P4CHDimensions
    /\ C21_SAXDimensions

(***************************************************************************)
(* C22.  At every rotation angle and in both modes the origin of the P4CH  *)
(* plane is the 3D lift of the first endpoint (the valve) through the P2CH *)
(* plane's map_2d_to_3d and its v_axis is -normalize(apex_3d - valve_3d);  *)
(* with the endpoints swapped the origin is the lift of the other endpoint *)
(* and v_axis is negated.  In the end-to-end example the origin is the     *)
(* lift of (190, 10).                                                      *)
(***************************************************************************)
Lift(plane, point) == map_2d_to_3d(plane, point[1], point[2], 0)
Swapped(in) == [in EXCEPT !.line = << in.line[2], in.line[1] >>]
C22_P4CHPivotsThroughValve ==
    /\ Called("create_p4ch_plane_from_p2ch_line")
       => LET in == Get(engine_input)
              plane == Get(engine_output).plane
              valve_3d == Lift(in.p2ch_plane, in.line[1])
              apex_3d == Lift(in.p2ch_plane, in.line[2])
              swapped == P4CHResultAt(Swapped(in), in.rotation_degrees).plane
          IN  /\ plane.origin = valve_3d
              /\ plane.v_axis = VNeg(normalize(VSub(apex_3d, valve_3d)))
              /\ swapped.origin = apex_3d
              /\ swapped.v_axis = VNeg(plane.v_axis)
    /\ ( Called("create_p4ch_plane_from_p2ch_line")
         /\ Get(engine_input) = ExampleP4CHInput )
       => Get(engine_output).plane.origin = << Vox(113), Vox(120), Vox(90) >>
\* the deriver has run in the perpendicular mode at a quarter turn back on
\* a line of an orthonormal plane whose endpoints lift to different points
C22_Witness ==
    /\ Called("create_p4ch_plane_from_p2ch_line")
    /\ Get(engine_input).rotation_degrees = -90
    /\ Get(engine_input).rotation_mode = "perp_p2ch"
    /\ Orthonormal(Get(engine_input).p2ch_plane)
    /\ Get(engine_output).plane.v_axis # Zero3
    /\ Get(engine_output).plane.origin
           # Lift(Get(engine_input).p2ch_plane, Get(engine_input).line[2])

(***************************************************************************)
(* C23.  For every rotation angle, both modes and any non-degenerate line  *)
(* on an orthonormal P2CH plane, the u_axis, v_axis and normal of the P4CH *)
(* plane are pairwise orthogonal and of unit length.                       *)
(***************************************************************************)
C23_P4CHAxesOrthonormal ==
    ( /\ Called("create_p4ch_plane_from_p2ch_line")
      /\ ~ZeroLength(Get(engine_input).line)
      /\ Orthonormal(Get(engine_input).p2ch_plane) )
    => Orthonormal(Get(engine_output).plane)
\* the deriver has run at a half turn on a line along a pixel row of an
\* orthonormal plane
C23_Witness ==
    /\ Called("create_p4ch_plane_from_p2ch_line")
    /\ ~ZeroLength(Get(engine_input).line)
    /\ Orthonormal(Get(engine_input).p2ch_plane)
    /\ Get(engine_input).rotation_degrees = 180
    /\ Get(engine_input).line[1][2] = Get(engine_input).line[2][2]
    /\ Orthonormal(Get(engine_output).plane)

(***************************************************************************)
(* C24.  With rotation_degrees = 0 in the long-axis mode the normal of the *)
(* P4CH plane is base_normal, and rotation is periodic: 360 degrees gives  *)
(* the same normal and the same plane as 0, and -180 the same as 180.      *)
(***************************************************************************)
C24_RotationIsPeriodic ==
    Called("create_p4ch_plane_from_p2ch_line")
    => LET in == Get(engine_input)
           result == Get(engine_output)
       IN  /\ ( in.rotation_degrees = 0 /\ in.rotation_mode = "long_axis" )
              => result.plane.normal = result.base_normal
           /\ in.rotation_degrees = 360
              => /\ result.plane.normal = P4CHResultAt(in, 0).plane.normal
                 /\ result = P4CHResultAt(in, 0)
           /\ in.rotation_degrees = -180 => result = P4CHResultAt(in, 180)
\* the deriver has run at 360 degrees in the long-axis mode on a line with
\* two different endpoints of an orthonormal plane
C24_Witness ==
    /\ Called("create_p4ch_plane_from_p2ch_line")
    /\ Get(engine_input).rotation_degrees = 360
    /\ Get(engine_input).rotation_mode = "long_axis"
    /\ ~ZeroLength(Get(engine_input).line)
    /\ Orthonormal(Get(engine_input).p2ch_plane)
    /\ Get(engine_output).plane.normal = Get(engine_output).base_normal
    /\ Get(engine_output).plane.normal # Zero3

(***************************************************************************)
(* C25.  In the long-axis mode at 0 degrees the P4CH plane looks the same  *)
(* way as the P2CH plane: for any non-degenerate line given in the 2D      *)
(* coordinates of a plane of the P2CH deriver, the P4CH normal equals the  *)
(* P2CH normal.                                                            *)
(***************************************************************************)
IsP2CHPlane(plane) ==
    plane \in EngineP2CHPlanes \cup {ExampleP4CHInput.p2ch_plane}
C25_SameViewingDirectionAsP2CH ==
    ( /\ Called("create_p4ch_plane_from_p2ch_line")
      /\ Get(engine_input).rotation_degrees = 0
      /\ Get(engine_input).rotation_mode = "long_axis"
      /\ ~ZeroLength(Get(engine_input).line)
      /\ IsP2CHPlane(Get(engine_input).p2ch_plane) )
    => Get(engine_output).plane.normal = Get(engine_input).p2ch_plane.normal
\* the deriver has run at 0 degrees in the long-axis mode on a line along a
\* pixel column of a P2CH plane with a normal
C25_Witness ==
    /\ Called("create_p4ch_plane_from_p2ch_line")
    /\ Get(engine_input).rotation_degrees = 0
    /\ Get(engine_input).rotation_mode = "long_axis"
    /\ Get(engine_input).line[1][1] = Get(engine_input).line[2][1]
    /\ Get(engine_input).line[1][2] # Get(engine_input).line[2][2]
    /\ IsP2CHPlane(Get(engine_input).p2ch_plane)
    /\ Get(engine_input).p2ch_plane.normal # Zero3
    /\ Get(engine_output).plane.normal = Get(engine_input).p2ch_plane.normal

(***************************************************************************)
(* C26.  Near-parallel fallback of the P4CH deriver: in the long-axis      *)
(* mode, when the projection of the P2CH normal onto the plane orthogonal  *)
(* to the long axis has magnitude below 1e-6, base_normal is               *)
(* normalize(cross(p2ch.normal, long_axis)), and the returned plane still  *)
(* has a unit base_normal perpendicular to the long axis and unit,         *)
(* pairwise orthogonal axes.                                               *)
(***************************************************************************)
LongAxis(in) ==
    normalize(VSub(Lift(in.p2ch_plane, in.line[2]),
                   Lift(in.p2ch_plane, in.line[1])))
FallbackTaken(in) ==
    /\ in.rotation_mode = "long_axis"
    /\ Norm(VSub(in.p2ch_plane.normal,
                 VScale(Dot(in.p2ch_plane.normal, LongAxis(in)),
                        LongAxis(in)))) = 0
C26_FallbackUsesPerpendicularFormula ==
    ( Called("create_p4ch_plane_from_p2ch_line")
      /\ FallbackTaken(Get(engine_input)) )
    => Get(engine_output).base_normal =
           normalize(Cross(Get(engine_input).p2ch_plane.normal,
                           LongAxis(Get(engine_input))))
\* the case the fallback is there for: a unit normal along a unit long
\* axis (a zero normal or a zero long axis is left aside)
NormalParallelToLongAxis(in) ==
    /\ FallbackTaken(in)
    /\ Dot(in.p2ch_plane.normal, in.p2ch_plane.normal) = 1
    /\ Dot(LongAxis(in), LongAxis(in)) = 1
C26_FallbackKeepsUnitAxes ==
    ( Called("create_p4ch_plane_from_p2ch_line")
      /\ NormalParallelToLongAxis(Get(engine_input)) )
    => LET result == Get(engine_output)
       IN  /\ Dot(result.base_normal, result.base_normal) = 1
           /\ Dot(result.base_normal, LongAxis(Get(engine_input))) = 0
           /\ Orthonormal(result.plane)
C26_FallbackReached ==
    /\ Called("create_p4ch_plane_from_p2ch_line")
    /\ NormalParallelToLongAxis(Get(engine_input))
    /\ Get(engine_input).p2ch_plane = ParallelNormalPlane

(***************************************************************************)
(* C27.  The SAX plane is perpendicular to the drawn line and to the P4CH  *)
(* plane: for a non-degenerate line given in the 2D coordinates of the     *)
(* P4CH plane, sax.normal = normalize(p2_3d - p1_3d), sax.normal is        *)
(* orthogonal to the P4CH normal, the origin is the midpoint of the two    *)
(* lifted endpoints, and u_axis, v_axis and normal are of unit length and  *)
(* pairwise orthogonal.                                                    *)
(***************************************************************************)
SAXPerpendicularToLineAndP4CH(in, sax) ==
    LET p1_3d == Lift(in.p4ch_plane, in.line[1])
        p2_3d == Lift(in.p4ch_plane, in.line[2])
    IN  /\ sax.normal = normalize(VSub(p2_3d, p1_3d))
        /\ Dot(sax.normal, in.p4ch_plane.normal) = 0
        /\ VScale(2, sax.origin) = VAdd(p1_3d, p2_3d)
        /\ Orthonormal(sax)
\* as stated: for every plane the P4CH deriver returns
C27_SAXPerpendicular_AnyP4CHPlane ==
    ( /\ Called("create_sax_plane_from_p4ch_line")
      /\ ~ZeroLength(Get(engine_input).line) )
    => SAXPerpendicularToLineAndP4CH(Get(engine_input), Get(engine_output))
\* C27, for a P4CH plane with orthonormal axes
C27_SAXPerpendicular ==
    ( /\ Called("create_sax_plane_from_p4ch_line")
      /\ ~ZeroLength(Get(engine_input).line)
      /\ Orthonormal(Get(engine_input).p4ch_plane) )
    => SAXPerpendicularToLineAndP4CH(Get(engine_input), Get(engine_output))
\* the SAX plane of a line along a pixel column of an orthonormal P4CH plane
C27_Witness ==
    /\ Called("create_sax_plane_from_p4ch_line")
    /\ Orthonormal(Get(engine_input).p4ch_plane)
    /\ Get(engine_input).line[1][1] = Get(engine_input).line[2][1]
    /\ Get(engine_input).line[1][2] < Get(engine_input).line[2][2]
    /\ Get(engine_output).normal = Get(engine_input).p4ch_plane.v_axis

(***************************************************************************)
(* C28.  Near-parallel fallback of the SAX deriver: when the P4CH u_axis   *)
(* with its sax_normal component removed has magnitude below 1e-6 (the     *)
(* line runs along the P4CH u_axis), the P4CH v_axis is projected instead  *)
(* and the SAX u_axis is a unit vector orthogonal to sax_normal, equal to  *)
(* + or - the P4CH v_axis on an orthonormal P4CH plane; otherwise u_axis   *)
(* is the normalized projection of the P4CH u_axis.                        *)
(***************************************************************************)
WithoutComponent(v, n) == VSub(v, VScale(Dot(v, n), n))
SAXFallback(in, sax) ==
    LET proj_u == WithoutComponent(in.p4ch_plane.u_axis, sax.normal)
        proj_v == WithoutComponent(in.p4ch_plane.v_axis, sax.normal)
    IN  IF Norm(proj_u) = 0
        THEN /\ sax.u_axis = normalize(proj_v)
             /\ Dot(sax.u_axis, sax.u_axis) = 1
             /\ Dot(sax.u_axis, sax.normal) = 0
             /\ Orthonormal(in.p4ch_plane)
                    => sax.u_axis \in {in.p4ch_plane.v_axis,
                                       VNeg(in.p4ch_plane.v_axis)}
        ELSE sax.u_axis = normalize(proj_u)
\* as stated: for every plane the P4CH deriver returns
C28_SAXFallback_AnyP4CHPlane ==
    ( /\ Called("create_sax_plane_from_p4ch_line")
      /\ ~ZeroLength(Get(engine_input).line) )
    => SAXFallback(Get(engine_input), Get(engine_output))
\* C28, for a P4CH plane with orthonormal axes
C28_SAXFallback ==
    ( /\ Called("create_sax_plane_from_p4ch_line")
      /\ ~ZeroLength(Get(engine_input).line)
      /\ Orthonormal(Get(engine_input).p4ch_plane) )
    => SAXFallback(Get(engine_input), Get(engine_output))
\* the fallback has been taken: a line along a pixel row of an orthonormal
\* P4CH plane, and the SAX u_axis is the P4CH v_axis
C28_Witness ==
    /\ Called("create_sax_plane_from_p4ch_line")
    /\ Orthonormal(Get(engine_input).p4ch_plane)
    /\ Get(engine_input).line[1][2] = Get(engine_input).line[2][2]
    /\ Get(engine_input).line[1][1] # Get(engine_input).line[2][1]
    /\ Norm(WithoutComponent(Get(engine_input).p4ch_plane.u_axis,
                             Get(engine_output).normal)) = 0
    /\ Get(engine_output).u_axis = Get(engine_input).p4ch_plane.v_axis

(***************************************************************************)
(* C29.  Every plane the three derivers produce from non-degenerate input  *)
(* on an orthonormal upstream plane is right-handed: normal = u_axis x     *)
(* v_axis, for P2CH, for P4CH at every angle and in both modes, and for    *)
(* SAX including its fallback branch.                                      *)
(***************************************************************************)
RightHanded(plane) == plane.normal = Cross(plane.u_axis, plane.v_axis)
C29_PlanesAreRightHanded ==
    /\ ( Called("create_p2ch_plane_from_axial_line")
         /\ ~ZeroLength(Get(engine_input).line) )
       => RightHanded(Get(engine_output))
    /\ ( /\ Called("create_p4ch_plane_from_p2ch_line")
         /\ ~ZeroLength(Get(engine_input).line)
         /\ Orthonormal(Get(engine_input).p2ch_plane) )
       => RightHanded(Get(engine_output).plane)
    /\ ( /\ Called("create_sax_plane_from_p4ch_line")
         /\ ~ZeroLength(Get(engine_input).line)
         /\ Orthonormal(Get(engine_input).p4ch_plane) )
       => RightHanded(Get(engine_output))
\* a SAX plane with a normal has come out of the fallback branch
C29_Witness ==
    /\ Called("create_sax_plane_from_p4ch_line")
    /\ ~ZeroLength(Get(engine_input).line)
    /\ Orthonormal(Get(engine_input).p4ch_plane)
    /\ Get(engine_output).u_axis \in {Get(engine_input).p4ch_plane.v_axis,
                                      VNeg(Get(engine_input).p4ch_plane.v_axis)}
    /\ Get(engine_output).normal # Zero3
    /\ RightHanded(Get(engine_output))

(***************************************************************************)
(* C30.  Only the axial view drives the pipeline: completing or removing a *)
(* line on the sagittal or coronal view leaves the three cardiac lines,    *)
(* the three oblique planes and the line segments of the annotations       *)
(* unchanged.                                                              *)
(***************************************************************************)
\* a left release on the sagittal or coronal view that ends a drag begun on
\* that view
SideLineCompleted(plane) ==
    /\ current_patient # 0
    /\ Present(lineseg_first_point)
    /\ lineseg_source_view = Some(plane)
    /\ \E i \in ClicksOn(plane) :
           Becomes(on_top_view_mouse_released(
               Window, plane,
               CurrentSlice(plane, VolumeShape(current_patient)),
               ScenePos(plane, i)))
\* a right press on the sagittal or coronal view
SideRightPressed(plane) ==
    /\ current_patient # 0
    /\ Becomes(on_top_view_right_pressed(Window, plane))
C30_OnlyAxialDrivesPipeline ==
    [][ \/ UNCHANGED << cardiac_line_segments, oblique_planes, annotations >>
        \/ \A plane \in {"sagittal", "coronal"} :
               ~SideLineCompleted(plane) /\ ~SideRightPressed(plane) ]_vars
\* a drag on the sagittal view is under way while the axial line and the
\* P2CH plane exist and the annotations hold a line
C30_Witness ==
    /\ lineseg_source_view = Some("sagittal")
    /\ Present(lineseg_first_point)
    /\ Present(cardiac_line_segments.axial)
    /\ Present(oblique_planes.p2ch)
    /\ Present(annotations)
    /\ Get(annotations) # << >>

(***************************************************************************)
(* C31.  Loading a patient resets the pipeline.  After _load_patient the   *)
(* window holds no P2CH or P4CH line, no P4CH or SAX plane, and the P4CH   *)
(* and SAX views show nothing; an axial line and a P2CH plane are present  *)
(* only when restored from the new patient's own annotations, the plane    *)
(* being the one derived from that line in the new patient's volume.       *)
(* Nothing derived from the previous patient's volume is left.             *)
(***************************************************************************)
PatientLoaded(p) ==
    /\ current_patient' = p
    /\ annotations' = LoadedAnnotations(p)
    /\ Becomes(load_patient(Window, p, LoadedAnnotations(p)))

RestoredFromAnnotations(p) ==
    LET fresh == [Window EXCEPT !.current_patient = p,
                                !.annotations = LoadedAnnotations(p),
                                !.views = [v \in BottomViews |-> NewView],
                                !.lines = NoLines,
                                !.planes = NoPlanes]
    IN  restore_cardiac_views_from_annotations(fresh)

PipelineResetFor(p) ==
    /\ Absent(cardiac_line_segments'.p2ch)
    /\ Absent(cardiac_line_segments'.p4ch)
    /\ Absent(oblique_planes'.p4ch)
    /\ Absent(oblique_planes'.sax)
    /\ \A v \in {"p4ch", "sax"} :
           /\ Absent(bottom_views'[v].plane)
           /\ Absent(bottom_views'[v].line_segment)
    /\ Absent(bottom_views'.p2ch.line_segment)
    /\ cardiac_line_segments'.axial = RestoredFromAnnotations(p).lines.axial
    /\ oblique_planes'.p2ch = RestoredFromAnnotations(p).planes.p2ch
    /\ bottom_views'.p2ch.plane = oblique_planes'.p2ch
    /\ Present(cardiac_line_segments'.axial) =>
           \E i \in 1..Len(Get(annotations')) :
               Get(annotations')[i] = Get(cardiac_line_segments'.axial)

C31_LoadResetsPipeline ==
    [][\A p \in Patients : PatientLoaded(p) => PipelineResetFor(p)]_vars

\* a patient is about to be loaded over a fully populated pipeline
C31_Witness ==
    /\ current_patient \in Patients
    /\ StageSAXReady
    /\ \A v \in BottomViews : Present(bottom_views[v].plane)
    /\ \A l \in {"axial", "p2ch", "p4ch"} : Present(cardiac_line_segments[l])

(***************************************************************************)
(* C32.  The window's bookkeeping and the views never disagree.  For each  *)
(* of p2ch, p4ch and sax the window's _oblique_planes entry is the plane   *)
(* of the view of that name (absent together, equal otherwise), and the    *)
(* window's stored P2CH and P4CH lines are the lines shown by the P2CH and *)
(* P4CH views (absent together, equal otherwise).                          *)
(***************************************************************************)
C32_PlanesAgree ==
    \A v \in BottomViews : oblique_planes[v] = bottom_views[v].plane
C32_LinesAgree ==
    \A v \in {"p2ch", "p4ch"} :
        cardiac_line_segments[v] = bottom_views[v].line_segment
C32_BookkeepingMatchesViews == C32_PlanesAgree /\ C32_LinesAgree

\* all three planes and both oblique lines are present on both sides
C32_Witness ==
    /\ \A v \in BottomViews :
           Present(oblique_planes[v]) /\ Present(bottom_views[v].plane)
    /\ \A v \in {"p2ch", "p4ch"} :
           /\ Present(cardiac_line_segments[v])
           /\ Present(bottom_views[v].line_segment)

(***************************************************************************)
(* C33.  The line drawing protocol.  _lineseg_first_point is set exactly   *)
(* when _lineseg_source_view is set.  A line is committed only by a left   *)
(* release on the view that received the preceding left press, and after   *)
(* that release both fields are cleared.  A release on a different view    *)
(* commits no line and changes no line or plane.  Both endpoints of a      *)
(* committed P2CH or P4CH line were lifted from the plane that is current  *)
(* for that view when the line is committed.                               *)
(***************************************************************************)
DrawnOn == {"axial", "p2ch", "p4ch"}
\* the step stores a new line for the view
Committed(view_name) ==
    /\ cardiac_line_segments'[view_name] # cardiac_line_segments[view_name]
    /\ Present(cardiac_line_segments'[view_name])
\* the step is a left release on the view
ReleasedOn(view_name) ==
    IF view_name = "axial"
    THEN /\ current_patient # 0
         /\ \E i \in ClicksOn("axial") :
                Becomes(on_top_view_mouse_released(
                    Window, "axial",
                    CurrentSlice("axial", VolumeShape(current_patient)),
                    ScenePos("axial", i)))
    ELSE \E i \in ClicksOn(view_name) :
             Becomes(on_oblique_view_mouse_released(
                 Window, view_name, ScenePos(view_name, i)))
\* the point is the lift of some 2D position of the plane
LiftedFrom(plane, point) ==
    LET pos == map_3d_to_2d(plane, point, 0)
    IN  /\ Present(pos)
        /\ map_2d_to_3d(plane, Get(pos)[1], Get(pos)[2], 0) = point

C33_FieldsSetTogether ==
    Present(lineseg_first_point) <=> Present(lineseg_source_view)

C33_CommitOnlyBySameViewRelease ==
    [][\A v \in DrawnOn :
          Committed(v)
          => /\ Present(lineseg_first_point)
             /\ lineseg_source_view = Some(v)
             /\ ReleasedOn(v)
             /\ Absent(lineseg_first_point')
             /\ Absent(lineseg_source_view')]_vars

C33_OtherViewReleaseChangesNothing ==
    \A v \in BottomViews : \A i \in ClicksOn(v) :
        lineseg_source_view # Some(v)
        => LET after == on_oblique_view_mouse_released(
                            Window, v, ScenePos(v, i))
           IN  /\ after.lines = cardiac_line_segments
               /\ after.planes = oblique_planes
               /\ after.views = bottom_views

C33_EndpointsFromCurrentPlane ==
    [][\A v \in {"p2ch", "p4ch"} :
          Committed(v)
          => /\ Present(oblique_planes[v])
             /\ LiftedFrom(Get(oblique_planes[v]),
                           End1(Get(cardiac_line_segments'[v])))
             /\ LiftedFrom(Get(oblique_planes[v]),
                           End2(Get(cardiac_line_segments'[v])))]_vars

(***************************************************************************)
(* C34.  The extractor and the mapping agree: the value at [j, i] of       *)
(* extract_oblique_slice(volume, plane, d) is the volume sampled (linear   *)
(* interpolation, 0 outside) at map_2d_to_3d(plane, i, j, d), for every    *)
(* pixel 0 <= i < width, 0 <= j < height.                                  *)
(***************************************************************************)
SampledAt(volume, point) ==
    map_coordinates(volume, << point[3], point[2], point[1] >>)
C34_ExtractorAgreesWithMapping ==
    Called("extract_oblique_slice")
    => LET in == Get(engine_input)
           result == Get(engine_output)
       IN  \A j \in 0..(in.plane.height - 1) :
               \A i \in 0..(in.plane.width - 1) :
                   result[j][i] =
                       SampledAt(in.volume,
                                 map_2d_to_3d(in.plane, Vox(i), Vox(j),
                                              in.offset))
\* a slice has been extracted at an offset that moves the samples, and it
\* shows different voxels than the slice at offset 0 would
C34_Witness ==
    /\ Called("extract_oblique_slice")
    /\ Get(engine_input).offset # 0
    /\ Get(engine_input).plane.normal # Zero3
    /\ \E j \in 0..(Get(engine_input).plane.height - 1) :
           \E i \in 0..(Get(engine_input).plane.width - 1) :
               /\ Get(engine_output)[j][i] # 0
               /\ Get(engine_output)[j][i] #
                      SampledAt(Get(engine_input).volume,
                                map_2d_to_3d(Get(engine_input).plane,
                                             Vox(i), Vox(j), 0))

(***************************************************************************)
(* C35.  The offset parameter and with_offset are interchangeable:         *)
(* map_2d_to_3d(plane, x, y, d) equals map_2d_to_3d(with_offset(plane, d), *)
(* x, y, 0), and extract_oblique_slice(volume, plane, d) equals            *)
(* extract_oblique_slice(volume, with_offset(plane, d), 0).                *)
(***************************************************************************)
C35_MappingOffsetIsWithOffset ==
    Called("map_2d_to_3d")
    => LET in == Get(engine_input)
       IN  Get(engine_output) =
               map_2d_to_3d(with_offset(in.plane, in.offset),
                            in.x2d, in.y2d, 0)
C35_ExtractOffsetIsWithOffset ==
    Called("extract_oblique_slice")
    => LET in == Get(engine_input)
       IN  Get(engine_output) =
               extract_oblique_slice(in.volume,
                                     with_offset(in.plane, in.offset), 0)
C35_OffsetInterchangeable ==
    C35_MappingOffsetIsWithOffset /\ C35_ExtractOffsetIsWithOffset
\* a slice has been extracted at an offset that moves the plane: it shows
\* voxels and is not the slice of the plane where it was
C35_Witness ==
    /\ Called("extract_oblique_slice")
    /\ Get(engine_input).offset # 0
    /\ Get(engine_output) #
           extract_oblique_slice(Get(engine_input).volume,
                                 Get(engine_input).plane, 0)
    /\ \E j \in DOMAIN Get(engine_output) :
           \E i \in DOMAIN Get(engine_output)[j] :
               Get(engine_output)[j][i] # 0

(***************************************************************************)
(* C36.  The two rotation modes differ by a quarter turn: for a            *)
(* non-degenerate line on an orthonormal P2CH plane and any angle t, the   *)
(* P4CH plane of mode PERP_P2CH at t has the origin, u_axis, v_axis and    *)
(* normal of the P4CH plane of mode LONG_AXIS at t - 90.                   *)
(***************************************************************************)
SameFrame(p, q) ==
    /\ p.origin = q.origin
    /\ p.u_axis = q.u_axis
    /\ p.v_axis = q.v_axis
    /\ p.normal = q.normal
InMode(in, mode) == [in EXCEPT !.rotation_mode = mode]
C36_ModesDifferByQuarterTurn ==
    ( /\ Called("create_p4ch_plane_from_p2ch_line")
      /\ ~ZeroLength(Get(engine_input).line)
      /\ Orthonormal(Get(engine_input).p2ch_plane) )
    => LET in == Get(engine_input)
           t == in.rotation_degrees
       IN  /\ in.rotation_mode = "perp_p2ch"
               => SameFrame(Get(engine_output).plane,
                            P4CHResultAt(InMode(in, "long_axis"),
                                         t - 90).plane)
           /\ in.rotation_mode = "long_axis"
               => SameFrame(Get(engine_output).plane,
                            P4CHResultAt(InMode(in, "perp_p2ch"),
                                         t + 90).plane)
\* a PERP_P2CH plane has been derived from a line of some length on an
\* orthonormal P2CH plane; it is orthonormal and is not the LONG_AXIS plane
\* of the same angle
C36_Witness ==
    /\ Called("create_p4ch_plane_from_p2ch_line")
    /\ ~ZeroLength(Get(engine_input).line)
    /\ Orthonormal(Get(engine_input).p2ch_plane)
    /\ Get(engine_input).rotation_mode = "perp_p2ch"
    /\ Get(engine_input).rotation_degrees \notin {0, 90}
    /\ Orthonormal(Get(engine_output).plane)
    /\ ~SameFrame(Get(engine_output).plane,
                  P4CHResultAt(InMode(Get(engine_input), "long_axis"),
                               Get(engine_input).rotation_degrees).plane)

(***************************************************************************)
(* C37.  SAX scrolling stays in range and restarts at zero.  Whenever a    *)
(* new SAX plane is set the scroll offset is 0; after any slider and wheel *)
(* events the offset t the SAX view extracts at satisfies                  *)
(* -max_dim/2 <= t <= max_dim/2, max_dim being the largest dimension of    *)
(* the volume, even or odd; the P2CH and P4CH views always extract at      *)
(* offset 0.                                                               *)
(***************************************************************************)
MaxDim(shape) == Max(shape[1], Max(shape[2], shape[3]))
C37_NewPlaneStartsAtZero ==
    [][( /\ bottom_views'.sax.plane # bottom_views.sax.plane
         /\ Present(bottom_views'.sax.plane) )
       => extraction_offset(bottom_views'.sax) = 0]_vars
C37_OtherViewsAtZero ==
    \A v \in {"p2ch", "p4ch"} : extraction_offset(bottom_views[v]) = 0
C37_OffsetWithinHalfMaxDim ==
    Present(bottom_views.sax.plane)
    => LET t == extraction_offset(bottom_views.sax)
           max_dim == MaxDim(VolumeShape(current_patient))
       IN  -max_dim <= 2 * t /\ 2 * t <= max_dim
\* the same for the volumes whose largest dimension is even
C37_OffsetWithinHalfMaxDim_Even ==
    ( /\ Present(bottom_views.sax.plane)
      /\ MaxDim(VolumeShape(current_patient)) % 2 = 0 )
    => LET t == extraction_offset(bottom_views.sax)
           max_dim == MaxDim(VolumeShape(current_patient))
       IN  -max_dim <= 2 * t /\ 2 * t <= max_dim

(***************************************************************************)
(* C38.  In the labelling main window, while a line-segment endpoint drag  *)
(* is in progress (_lineseg_dragging), _lineseg_drag_index is a valid      *)
(* index into the current patient's line_segments and still refers to the  *)
(* segment picked when the drag started, whatever mouse presses, moves and *)
(* releases, right-click removals, tool changes and patient switches come  *)
(* in between: a move or release during a drag never indexes out of range  *)
(* and never edits a different segment.                                    *)
(***************************************************************************)
DraggedSegments(m) == m.line_segments[m.current_patient]
C38_DragIndexValid ==
    main_window.lineseg_dragging
    => /\ main_window.current_patient # 0
       /\ Present(main_window.lineseg_drag_index)
       /\ Get(main_window.lineseg_drag_index) >= 0
       /\ Get(main_window.lineseg_drag_index)
              < Len(DraggedSegments(main_window))
\* from one event of a drag to the next the index names the same segment,
\* unless the step picks an endpoint anew
C38_DragKeepsSegment ==
    [][( /\ main_window.lineseg_dragging
         /\ main_window'.lineseg_dragging
         /\ ~RaisesIndexError(main_window)
         /\ \/ main_window'.line_segments # main_window.line_segments
            \/ main_window'.current_patient # main_window.current_patient )
       => /\ ~RaisesIndexError(main_window')
          /\ DraggedSegments(main_window')[
                 Get(main_window'.lineseg_drag_index) + 1].id
             = DraggedSegments(main_window)[
                   Get(main_window.lineseg_drag_index) + 1].id]_vars

(***************************************************************************)
(* C39.  Save/load round trip: for a patient whose annotations hold any    *)
(* keypoints, line segments and masks, save_patient_annotations followed   *)
(* by load_patient_annotations (same directory, same volume shape) returns *)
(* annotations with the same keypoints, the same line segments and the     *)
(* same masks that contain data, and modified is false on the saved and on *)
(* the loaded object.                                                      *)
(***************************************************************************)
\* a load has followed a save of a patient that has annotations
RoundTripped ==
    /\ persistence.saved
    /\ Present(persistence.loaded)
    /\ Present(Get(persistence.patient).annotations)
SavedAnnotations == Get(Get(persistence.patient).annotations)
ReloadedAnnotations == Get(Get(persistence.loaded))
C39_SameKeypoints ==
    RoundTripped
    => /\ Present(Get(persistence.loaded))
       /\ ReloadedAnnotations.keypoints = SavedAnnotations.keypoints
C39_SameMasksWithData ==
    RoundTripped
    => /\ Present(Get(persistence.loaded))
       /\ DOMAIN ReloadedAnnotations.masks
              = {l \in DOMAIN SavedAnnotations.masks :
                     has_data(SavedAnnotations.masks[l])}
       /\ \A l \in DOMAIN ReloadedAnnotations.masks :
              ReloadedAnnotations.masks[l] = SavedAnnotations.masks[l]
C39_NotModified ==
    RoundTripped
    => /\ Present(Get(persistence.loaded))
       /\ ~SavedAnnotations.modified
       /\ ~ReloadedAnnotations.modified
C39_SameLineSegments ==
    RoundTripped
    => /\ Present(Get(persistence.loaded))
       /\ ReloadedAnnotations.line_segments = SavedAnnotations.line_segments

=============================================================================
